---- MODULE Spec2Model ----
(***************************************************************************)
(* Model of the ChiliHead team task board: the PostgreSQL table            *)
(* team_tasks (database/schema.sql), the task store dbStore (lib/db.ts)    *)
(* and the HTTP handlers of /api/tasks (app/api/tasks/route.ts).           *)
(*                                                                         *)
(* JavaScript values are modelled as strings; Undefined stands for a key   *)
(* that is absent (undefined) and Null for JSON/SQL null.  A timestamp is  *)
(* an integer instant of the database clock; a TIMESTAMP column holds      *)
(* <<t>> or <<>> for NULL.  A date string is either the canonical          *)
(* rendering of Date.prototype.toISOString or a date-only rendering such   *)
(* as "2025-10-31"; both parse to an instant.                              *)
(***************************************************************************)
EXTENDS Integers, Sequences, FiniteSets, TLC

VARIABLES env, db, pool, pools, table, now, last, reqs, shown, net, clicks

vars == <<env, db, pool, pools, table, now, last, reqs, shown, net, clicks>>

\* the server: the environment, the database, the module-level pool and
\* the record of the request served last
server == <<env, db, pool, pools, table, now, last>>

\* the browsers: what each board displays (the state tasks of page.tsx),
\* the requests and responses under way between the boards and the server,
\* and the log of the clicks made so far
board == <<shown, net, clicks>>

(***************************************************************************)
(* Bounds of the model.                                                    *)
(***************************************************************************)
\* the last instant at which a statement may stamp a row
MaxTime == 2

\* the number of pools the process may construct
MaxPools == 2

\* the number of clicks on status controls, of all boards together
MaxClicks == 3

(***************************************************************************)
(* JavaScript values.                                                      *)
(***************************************************************************)
Undefined == "<undefined>"
Null == "<null>"

\* JavaScript truthiness of a string-or-missing value
Truthy(v) == v \notin {Undefined, Null, ""}

\* a || b
OrElse(a, b) == IF Truthy(a) THEN a ELSE b

Instants == 0..(MaxTime + 2)

\* Date.prototype.toISOString
toISOString(t) == "T" \o ToString(t) \o "Z"

\* a date-only rendering of the instant t, as in the README ("2025-10-31")
DateOnly(t) == "D" \o ToString(t)

\* the time value of an Invalid Date (NaN)
InvalidDate == -1

\* the string is one Date can parse
Parsable(s) == \E t \in Instants : s = toISOString(t) \/ s = DateOnly(t)

\* new Date(s): the instant a parsable date string denotes, an Invalid Date
\* for any other string
NewDate(s) ==
  IF Parsable(s)
    THEN CHOOSE t \in Instants : s = toISOString(t) \/ s = DateOnly(t)
    ELSE InvalidDate

(***************************************************************************)
(* The table team_tasks.                                                   *)
(***************************************************************************)
Priorities == {"low", "normal", "high", "urgent"}
Statuses == {"todo", "in_progress", "completed"}

Columns ==
  {"id", "title", "description", "priority", "due_date", "assigned_to",
   "status", "created_at", "updated_at", "pushed_by"}

NotNullColumns ==
  {"id", "title", "priority", "status", "created_at", "updated_at", "pushed_by"}

\* NOT NULL of the columns that carry it
NotNullOk(row) ==
  /\ \A c \in NotNullColumns \ {"created_at", "updated_at"} : row[c] # Null
  /\ row.created_at # <<>>
  /\ row.updated_at # <<>>

\* the table without its CHECK constraints
CheckOk_Dropped(row) == TRUE

\* CONSTRAINT check_priority, check_status (a CHECK passes on NULL)
CheckOk(row) ==
  /\ row.priority = Null \/ row.priority \in Priorities
  /\ row.status = Null \/ row.status \in Statuses

\* the INSERT with a slip: ON CONFLICT (id) DO UPDATE, the row of a stored
\* id is replaced
SqlInsert_Upsert(tbl, v, t) ==
  LET row == [id |-> v.id, title |-> v.title, description |-> v.description,
              priority |-> v.priority, due_date |-> v.due_date,
              assigned_to |-> v.assigned_to, status |-> v.status,
              created_at |-> <<t>>, updated_at |-> <<t>>,
              pushed_by |-> v.pushed_by]
  IN  IF v.due_date = <<InvalidDate>> \/ ~NotNullOk(row) \/ ~CheckOk(row)
        THEN [ok |-> FALSE, cause |-> "rejected", table |-> tbl, rows |-> <<>>]
      ELSE [ok |-> TRUE, cause |-> "none",
            table |-> [i \in DOMAIN tbl \cup {v.id} |-> IF i = v.id THEN row ELSE tbl[i]],
            rows |-> <<row>>]

\* INSERT INTO team_tasks (id, title, description, priority, due_date,
\* assigned_to, status, pushed_by) VALUES (...) RETURNING *  at instant t
SqlInsert(tbl, v, t) ==
  LET row == [id |-> v.id, title |-> v.title, description |-> v.description,
              priority |-> v.priority, due_date |-> v.due_date,
              assigned_to |-> v.assigned_to, status |-> v.status,
              created_at |-> <<t>>, updated_at |-> <<t>>,
              pushed_by |-> v.pushed_by]
  IN  IF v.due_date = <<InvalidDate>>
        THEN [ok |-> FALSE, cause |-> "invalid_datetime_format", table |-> tbl, rows |-> <<>>]
      ELSE IF ~NotNullOk(row)
        THEN [ok |-> FALSE, cause |-> "not_null_violation", table |-> tbl, rows |-> <<>>]
      ELSE IF ~CheckOk(row)
        THEN [ok |-> FALSE, cause |-> "check_violation", table |-> tbl, rows |-> <<>>]
      ELSE IF v.id \in DOMAIN tbl
        THEN [ok |-> FALSE, cause |-> "unique_violation", table |-> tbl, rows |-> <<>>]
      ELSE [ok |-> TRUE, cause |-> "none",
            table |-> [i \in DOMAIN tbl \cup {v.id} |-> IF i = v.id THEN row ELSE tbl[i]],
            rows |-> <<row>>]

\* the table without its trigger
update_team_tasks_updated_at_Missing(new, t) == new

\* the trigger with a slip: updated_at is reset to the epoch
update_team_tasks_updated_at_Epoch(new, t) == [new EXCEPT !.updated_at = <<0>>]

\* trigger_update_team_tasks_updated_at: BEFORE UPDATE, NEW.updated_at = NOW()
update_team_tasks_updated_at(new, t) == [new EXCEPT !.updated_at = <<t>>]

\* UPDATE team_tasks SET <set> WHERE id = <id> RETURNING *  at instant t;
\* set is a function from the assigned columns to their values.  The
\* parameters are converted to the column types before any row is looked
\* for: the rendering of an Invalid Date is no timestamp
SqlUpdate(tbl, id, set, t) ==
  IF "due_date" \in DOMAIN set /\ set["due_date"] = <<InvalidDate>>
    THEN [ok |-> FALSE, cause |-> "invalid_datetime_format", table |-> tbl, rows |-> <<>>]
  ELSE IF id \notin DOMAIN tbl
    THEN [ok |-> TRUE, cause |-> "none", table |-> tbl, rows |-> <<>>]
  ELSE
    LET assigned == [c \in Columns |-> IF c \in DOMAIN set THEN set[c] ELSE tbl[id][c]]
        row == update_team_tasks_updated_at(assigned, t)
    IN  IF ~NotNullOk(row)
          THEN [ok |-> FALSE, cause |-> "not_null_violation", table |-> tbl, rows |-> <<>>]
        ELSE IF ~CheckOk(row)
          THEN [ok |-> FALSE, cause |-> "check_violation", table |-> tbl, rows |-> <<>>]
        ELSE [ok |-> TRUE, cause |-> "none",
              table |-> [tbl EXCEPT ![id] = row], rows |-> <<row>>]

\* DELETE FROM team_tasks WHERE id = <id>
SqlDelete(tbl, id) ==
  IF id \in DOMAIN tbl
    THEN [table |-> [i \in DOMAIN tbl \ {id} |-> tbl[i]], rowCount |-> 1]
    ELSE [table |-> tbl, rowCount |-> 0]

(***************************************************************************)
(* The task store dbStore (lib/db.ts).  Every operation takes the table    *)
(* and, where the statement reads NOW(), the instant t, and yields the     *)
(* table afterwards together with what the call returns or throws.         *)
(***************************************************************************)
\* the driver sends an undefined parameter as NULL
ToSql(v) == IF v = Undefined THEN Null ELSE v

\* task.due_date ? new Date(task.due_date) : null
ToSqlDate(v) == IF Truthy(v) THEN <<NewDate(v)>> ELSE <<>>

\* { ...row, due_date: row.due_date ? row.due_date.toISOString() : undefined,
\*   created_at: row.created_at.toISOString(), updated_at: ... }
rowToTask(row) ==
  [id |-> row.id, title |-> row.title, description |-> row.description,
   priority |-> row.priority,
   due_date |-> IF row.due_date # <<>> THEN toISOString(row.due_date[1]) ELSE Undefined,
   assigned_to |-> row.assigned_to, status |-> row.status,
   created_at |-> toISOString(row.created_at[1]),
   updated_at |-> toISOString(row.updated_at[1]),
   pushed_by |-> row.pushed_by]

\* what a call of the store yields: a returned value, a returned null or a
\* thrown Error with its message; table is the table the call leaves
Return(v, tbl) == [kind |-> "return", value |-> v, table |-> tbl]
ReturnNull(tbl) == [kind |-> "null", value |-> Null, table |-> tbl]
Throw(msg, tbl) == [kind |-> "throw", value |-> msg, table |-> tbl]

\* dbStore.getTaskById
getTaskById(tbl, id) ==
  IF id \notin DOMAIN tbl THEN ReturnNull(tbl)
  ELSE Return(rowToTask(tbl[id]), tbl)

\* addTask with a slip: description and assigned_to are passed on as they
\* come, an empty string is not turned into NULL
addTask_KeepsEmpty(tbl, task, t) ==
  LET values == [id |-> ToSql(task.id),
                 title |-> ToSql(task.title),
                 description |-> ToSql(task.description),
                 priority |-> ToSql(task.priority),
                 due_date |-> ToSqlDate(task.due_date),
                 assigned_to |-> ToSql(task.assigned_to),
                 status |-> ToSql(task.status),
                 pushed_by |-> ToSql(task.pushed_by)]
      result == SqlInsert(tbl, values, t)
  IN  IF result.ok
        THEN Return(rowToTask(result.rows[1]), result.table)
        ELSE Throw("Failed to add task to database", result.table)

\* dbStore.addTask
addTask(tbl, task, t) ==
  LET values == [id |-> ToSql(task.id),
                 title |-> ToSql(task.title),
                 description |-> OrElse(task.description, Null),
                 priority |-> ToSql(task.priority),
                 due_date |-> ToSqlDate(task.due_date),
                 assigned_to |-> OrElse(task.assigned_to, Null),
                 status |-> ToSql(task.status),
                 pushed_by |-> ToSql(task.pushed_by)]
      result == SqlInsert(tbl, values, t)
  IN  IF result.ok
        THEN Return(rowToTask(result.rows[1]), result.table)
        ELSE Throw("Failed to add task to database", result.table)

\* the fields updateTask recognises, in the order it tests them
UpdatableFields ==
  {"title", "description", "priority", "due_date", "assigned_to", "status", "pushed_by"}

\* the fields of the partial update that are !== undefined
fields(updates) == {f \in UpdatableFields : updates[f] # Undefined}

\* the value updateTask pushes for a supplied field
UpdateValue(f, v) ==
  CASE f \in {"description", "assigned_to"} -> OrElse(v, Null)
    [] f = "due_date" -> ToSqlDate(v)
    [] OTHER -> v

\* updateTask with a slip: the UPDATE is sent even when no recognised field
\* was supplied
updateTask_AlwaysWrites(tbl, id, updates, t) ==
  LET set == [f \in fields(updates) |-> UpdateValue(f, updates[f])]
      result == SqlUpdate(tbl, id, set, t)
  IN  IF ~result.ok
        THEN Throw("Failed to update task in database", result.table)
      ELSE IF Len(result.rows) = 0
        THEN ReturnNull(result.table)
      ELSE Return(rowToTask(result.rows[1]), result.table)

\* updateTask with a slip: created_at is among the fields it assigns
updateTask_Stamps(tbl, id, updates, t) ==
  LET given == fields(updates) \cup
                 (IF updates.created_at # Undefined THEN {"created_at"} ELSE {})
      set == [f \in given |->
                IF f = "created_at" THEN ToSqlDate(updates.created_at)
                ELSE UpdateValue(f, updates[f])]
      result == SqlUpdate(tbl, id, set, t)
  IN  IF given = {}
        THEN getTaskById(tbl, id)
      ELSE IF ~result.ok
        THEN Throw("Failed to update task in database", result.table)
      ELSE IF Len(result.rows) = 0
        THEN ReturnNull(result.table)
      ELSE Return(rowToTask(result.rows[1]), result.table)

\* updateTask with a slip: the statement writes every updatable column,
\* the ones the caller did not supply with the values the row was read with
\* when it was created
updateTask_WritesEveryColumn(tbl, id, updates, t) ==
  IF fields(updates) = {}
    THEN getTaskById(tbl, id)
  ELSE
    LET set == [f \in UpdatableFields |->
                  IF f \in fields(updates) THEN UpdateValue(f, updates[f])
                  ELSE CASE f = "title" -> "t1"
                         [] f = "priority" -> "normal"
                         [] f = "status" -> "todo"
                         [] f = "pushed_by" -> "ChiliHead System"
                         [] f = "due_date" -> <<>>
                         [] OTHER -> Null]
        result == SqlUpdate(tbl, id, set, t)
    IN  IF ~result.ok
          THEN Throw("Failed to update task in database", result.table)
        ELSE IF Len(result.rows) = 0
          THEN ReturnNull(result.table)
        ELSE Return(rowToTask(result.rows[1]), result.table)

\* dbStore.updateTask
updateTask(tbl, id, updates, t) ==
  IF fields(updates) = {}
    THEN getTaskById(tbl, id)
  ELSE
    LET set == [f \in fields(updates) |-> UpdateValue(f, updates[f])]
        result == SqlUpdate(tbl, id, set, t)
    IN  IF ~result.ok
          THEN Throw("Failed to update task in database", result.table)
        ELSE IF Len(result.rows) = 0
          THEN ReturnNull(result.table)
        ELSE Return(rowToTask(result.rows[1]), result.table)

\* deleteTask with a slip: the row count is compared with >= 0
deleteTask_AnyCount(tbl, id) ==
  LET result == SqlDelete(tbl, id)
  IN  Return(result.rowCount >= 0, result.table)

\* dbStore.deleteTask
deleteTask(tbl, id) ==
  LET result == SqlDelete(tbl, id)
  IN  Return(result.rowCount > 0, result.table)

\* the SELECT with ORDER BY created_at ASC
SelectOrdered_Ascending(tbl, ids) ==
  LET n == Cardinality(ids)
  IN  {s \in [1..n -> ids] :
         /\ \A i, j \in 1..n : i # j => s[i] # s[j]
         /\ \A i, j \in 1..n :
              i < j => tbl[s[i]].created_at[1] <= tbl[s[j]].created_at[1]}

\* the sequences SELECT * FROM team_tasks [WHERE status = $1]
\* ORDER BY created_at DESC may produce (rows of equal created_at come in
\* any order)
SelectOrdered(tbl, ids) ==
  LET n == Cardinality(ids)
  IN  {s \in [1..n -> ids] :
         /\ \A i, j \in 1..n : i # j => s[i] # s[j]
         /\ \A i, j \in 1..n :
              i < j => tbl[s[i]].created_at[1] >= tbl[s[j]].created_at[1]}

\* dbStore.getTasks: the lists the call may return
getTasks(tbl, status) ==
  LET ids == IF Truthy(status)
               THEN {i \in DOMAIN tbl : tbl[i].status = status}
               ELSE DOMAIN tbl
  IN  {[i \in DOMAIN s |-> rowToTask(tbl[s[i]])] : s \in SelectOrdered(tbl, ids)}

\* SUM(CASE WHEN p THEN 1 ELSE 0 END) over the table, matching being the
\* rows on which p is true: the sum as the driver delivers it, NULL when
\* the table has no rows
SqlSumCase(tbl, matching) ==
  IF DOMAIN tbl = {} THEN Null
  ELSE ToString(Cardinality(matching))

\* COUNT(*) as the driver delivers it
SqlCount(tbl) == ToString(Cardinality(DOMAIN tbl))

\* parseInt(x) || 0 for a decimal string or NULL
parseIntOr0(x) ==
  IF x = Null THEN 0
  ELSE CHOOSE n \in Instants : ToString(n) = x

\* getTaskStats with a slip: overdue counts completed tasks too
getTaskStats_OverdueAnyStatus(tbl, t) ==
  LET rows == DOMAIN tbl
      todo == {i \in rows : tbl[i].status = "todo"}
      in_progress == {i \in rows : tbl[i].status = "in_progress"}
      completed == {i \in rows : tbl[i].status = "completed"}
      overdue == {i \in rows : /\ tbl[i].due_date # <<>>
                               /\ tbl[i].due_date[1] < t}
  IN  [total |-> parseIntOr0(SqlCount(tbl)),
       todo |-> parseIntOr0(SqlSumCase(tbl, todo)),
       in_progress |-> parseIntOr0(SqlSumCase(tbl, in_progress)),
       completed |-> parseIntOr0(SqlSumCase(tbl, completed)),
       overdue |-> parseIntOr0(SqlSumCase(tbl, overdue))]

\* dbStore.getTaskStats at instant t
getTaskStats(tbl, t) ==
  LET rows == DOMAIN tbl
      todo == {i \in rows : tbl[i].status = "todo"}
      in_progress == {i \in rows : tbl[i].status = "in_progress"}
      completed == {i \in rows : tbl[i].status = "completed"}
      \* due_date < NOW() is not true of a NULL due_date
      overdue == {i \in rows : /\ tbl[i].due_date # <<>>
                               /\ tbl[i].due_date[1] < t
                               /\ tbl[i].status # "completed"}
  IN  [total |-> parseIntOr0(SqlCount(tbl)),
       todo |-> parseIntOr0(SqlSumCase(tbl, todo)),
       in_progress |-> parseIntOr0(SqlSumCase(tbl, in_progress)),
       completed |-> parseIntOr0(SqlSumCase(tbl, completed)),
       overdue |-> parseIntOr0(SqlSumCase(tbl, overdue))]

(***************************************************************************)
(* The handlers of /api/tasks (app/api/tasks/route.ts).  A handler yields  *)
(* the HTTP status, the JSON body, the table it leaves and the number of   *)
(* statements it sent to the database.                                     *)
(***************************************************************************)
\* verifyApiKey with a slip: only the manager key is accepted
verifyApiKey_ManagerOnly(e, apiKey) ==
  LET managerKey == e.API_SECRET_KEY
  IN  IF ~Truthy(managerKey) THEN FALSE
      ELSE apiKey = managerKey

\* verifyApiKey with a slip: the team key is accepted although the manager
\* key is not configured
verifyApiKey_TeamKeyAlone(e, apiKey) ==
  LET managerKey == e.API_SECRET_KEY
      teamKey == OrElse(e.NEXT_PUBLIC_TEAM_API_KEY, "team-member-access")
  IN  apiKey = teamKey \/ (Truthy(managerKey) /\ apiKey = managerKey)

\* verifyApiKey: apiKey is the x-api-key header, Null when it is absent
verifyApiKey(e, apiKey) ==
  LET managerKey == e.API_SECRET_KEY
      teamKey == OrElse(e.NEXT_PUBLIC_TEAM_API_KEY, "team-member-access")
  IN  IF ~Truthy(managerKey) THEN FALSE
      ELSE apiKey = managerKey \/ apiKey = teamKey

\* a response; caught is the message of the Error the handler caught from
\* the store ("" when it caught none)
Responded(status, json, tbl, n, caught) ==
  [status |-> status, json |-> json, table |-> tbl, stmts |-> n, caught |-> caught]

Response(status, json, tbl, n) == Responded(status, json, tbl, n, "")

ErrorJson(msg) == [success |-> FALSE, error |-> msg]

\* the task of POST with a slip: the body's values are passed on without
\* defaults
NewTask_NoDefaults(body, t) ==
  [id |-> OrElse(body.id, "task_" \o ToString(t)),
   title |-> body.title,
   description |-> body.description,
   priority |-> body.priority,
   due_date |-> body.due_date,
   assigned_to |-> body.assigned_to,
   status |-> body.status,
   pushed_by |-> body.pushed_by]

\* the task POST hands to addTask; t is Date.now()
NewTask(body, t) ==
  [id |-> OrElse(body.id, "task_" \o ToString(t)),
   title |-> body.title,
   description |-> OrElse(body.description, ""),
   priority |-> OrElse(body.priority, "normal"),
   due_date |-> body.due_date,
   assigned_to |-> body.assigned_to,
   status |-> OrElse(body.status, "todo"),
   pushed_by |-> OrElse(body.pushed_by, "ChiliHead System")]

\* POST with a slip: the title is not validated
POSTresponse_NoTitleCheck(e, tbl, apiKey, body, t) ==
  IF ~verifyApiKey(e, apiKey)
    THEN Response(401, ErrorJson("Unauthorized - Invalid API key"), tbl, 0)
  ELSE
    LET savedTask == addTask(tbl, NewTask(body, t), t)
    IN  IF savedTask.kind = "throw"
          THEN Responded(500, ErrorJson("Failed to create task"), savedTask.table, 1,
                         savedTask.value)
          ELSE Response(200, [success |-> TRUE, task |-> savedTask.value,
                              message |-> "Task pushed to team board"],
                        savedTask.table, 1)

\* POST /api/tasks
POSTresponse(e, tbl, apiKey, body, t) ==
  IF ~verifyApiKey(e, apiKey)
    THEN Response(401, ErrorJson("Unauthorized - Invalid API key"), tbl, 0)
  ELSE IF ~Truthy(body.title)
    THEN Response(400, ErrorJson("Title is required"), tbl, 0)
  ELSE
    LET savedTask == addTask(tbl, NewTask(body, t), t)
    IN  IF savedTask.kind = "throw"
          THEN Responded(500, ErrorJson("Failed to create task"), savedTask.table, 1,
                         savedTask.value)
          ELSE Response(200, [success |-> TRUE, task |-> savedTask.value,
                              message |-> "Task pushed to team board"],
                        savedTask.table, 1)

\* PUT with a slip: the handler verifies the API key as POST and DELETE do
PUTresponse_Guarded(e, tbl, apiKey, taskId, updates, t) ==
  IF ~verifyApiKey(e, apiKey)
    THEN Response(401, ErrorJson("Unauthorized - Invalid API key"), tbl, 0)
  ELSE IF ~Truthy(taskId)
    THEN Response(400, ErrorJson("Task ID required"), tbl, 0)
  ELSE
    LET updatedTask == updateTask(tbl, taskId, updates, t)
    IN  IF updatedTask.kind = "throw"
          THEN Responded(500, ErrorJson("Failed to update task"), updatedTask.table, 1,
                         updatedTask.value)
        ELSE IF updatedTask.kind = "null"
          THEN Response(404, ErrorJson("Task not found"), updatedTask.table, 1)
        ELSE Response(200, [success |-> TRUE, task |-> updatedTask.value],
                      updatedTask.table, 1)

\* PUT /api/tasks?id=xxx ; taskId is Null when the query has no id
PUTresponse(e, tbl, apiKey, taskId, updates, t) ==
  IF ~Truthy(taskId)
    THEN Response(400, ErrorJson("Task ID required"), tbl, 0)
  ELSE
    LET updatedTask == updateTask(tbl, taskId, updates, t)
    IN  IF updatedTask.kind = "throw"
          THEN Responded(500, ErrorJson("Failed to update task"), updatedTask.table, 1,
                         updatedTask.value)
        ELSE IF updatedTask.kind = "null"
          THEN Response(404, ErrorJson("Task not found"), updatedTask.table, 1)
        ELSE Response(200, [success |-> TRUE, task |-> updatedTask.value],
                      updatedTask.table, 1)

\* DELETE with a slip: the handler does not verify the API key
DELETEresponse_Open(e, tbl, apiKey, taskId) ==
  IF ~Truthy(taskId)
    THEN Response(400, ErrorJson("Task ID required"), tbl, 0)
  ELSE
    LET deleted == deleteTask(tbl, taskId)
    IN  IF ~deleted.value
          THEN Response(404, ErrorJson("Task not found"), deleted.table, 1)
          ELSE Response(200, [success |-> TRUE, message |-> "Task deleted"],
                        deleted.table, 1)

\* DELETE with a slip: the id is checked before the API key
DELETEresponse_IdFirst(e, tbl, apiKey, taskId) ==
  IF ~Truthy(taskId)
    THEN Response(400, ErrorJson("Task ID required"), tbl, 0)
  ELSE IF ~verifyApiKey(e, apiKey)
    THEN Response(401, ErrorJson("Unauthorized - Invalid API key"), tbl, 0)
  ELSE
    LET deleted == deleteTask(tbl, taskId)
    IN  IF ~deleted.value
          THEN Response(404, ErrorJson("Task not found"), deleted.table, 1)
          ELSE Response(200, [success |-> TRUE, message |-> "Task deleted"],
                        deleted.table, 1)

\* DELETE /api/tasks?id=xxx
DELETEresponse(e, tbl, apiKey, taskId) ==
  IF ~verifyApiKey(e, apiKey)
    THEN Response(401, ErrorJson("Unauthorized - Invalid API key"), tbl, 0)
  ELSE IF ~Truthy(taskId)
    THEN Response(400, ErrorJson("Task ID required"), tbl, 0)
  ELSE
    LET deleted == deleteTask(tbl, taskId)
    IN  IF ~deleted.value
          THEN Response(404, ErrorJson("Task not found"), deleted.table, 1)
          ELSE Response(200, [success |-> TRUE, message |-> "Task deleted"],
                        deleted.table, 1)

\* GET /api/tasks?status= : the responses the handler may give; status is
\* Null when the query has no status
GETresponses(e, tbl, apiKey, status) ==
  {Response(200, [success |-> TRUE, tasks |-> tasks, count |-> Len(tasks)], tbl, 1) :
     tasks \in getTasks(tbl, OrElse(status, Undefined))}

(***************************************************************************)
(* The handlers and the store when the database cannot be used.  d is the  *)
(* condition a store operation meets: "up", "down" (the pool's query is    *)
(* rejected) or "unconfigured" (no DATABASE_URL or POSTGRES_URL, getPool   *)
(* throws).  A statement that fails writes nothing.                        *)
(***************************************************************************)
DbConditions == {"up", "down", "unconfigured"}

\* the message of the error a rejected query carries
QueryError == "Connection terminated unexpectedly"

\* the message of the Error getPool throws
NotConfigured == "DATABASE_URL or POSTGRES_URL environment variable not configured"

\* the message of the Error a store operation throws under d # "up" when
\* it calls getPool before its try block: the Error of getPool itself, or
\* the Error its catch block makes of the rejected query
StoreError(d, wrapped) == IF d = "unconfigured" THEN NotConfigured ELSE wrapped

\* getTasks calls getPool inside its try block and quotes the cause
getTasksError(d) ==
  "Failed to fetch tasks from database: " \o
    (IF d = "unconfigured" THEN NotConfigured ELSE QueryError)

\* updateTask without a recognised field returns getTaskById's promise
\* without awaiting it, so its own catch block does not see the rejection
updateTaskError(d, updates) ==
  StoreError(d, IF fields(updates) = {} THEN "Failed to fetch task from database"
                ELSE "Failed to update task in database")

\* GET under d
GETon(d, e, tbl, apiKey, status) ==
  IF d = "up" THEN GETresponses(e, tbl, apiKey, status)
  ELSE {Responded(500, ErrorJson("Failed to fetch tasks"), tbl, 1, getTasksError(d))}

\* POST under d: the handler as far as it gets without the store, then the
\* catch block
POSTon(d, e, tbl, apiKey, body, t) ==
  LET r == POSTresponse(e, tbl, apiKey, body, t)
  IN  IF d = "up" \/ r.stmts = 0 THEN r
      ELSE Responded(500, ErrorJson("Failed to create task"), tbl, 1,
                     StoreError(d, "Failed to add task to database"))

\* PUT with a slip: the catch block passes the message of the Error on
PUTon_LeaksCause(d, e, tbl, apiKey, taskId, updates, t) ==
  LET r == PUTresponse(e, tbl, apiKey, taskId, updates, t)
  IN  IF d = "up" \/ r.stmts = 0 THEN r
      ELSE Responded(500, ErrorJson(updateTaskError(d, updates)), tbl, 1,
                     updateTaskError(d, updates))

\* PUT under d
PUTon(d, e, tbl, apiKey, taskId, updates, t) ==
  LET r == PUTresponse(e, tbl, apiKey, taskId, updates, t)
  IN  IF d = "up" \/ r.stmts = 0 THEN r
      ELSE Responded(500, ErrorJson("Failed to update task"), tbl, 1,
                     updateTaskError(d, updates))

\* DELETE under d
DELETEon(d, e, tbl, apiKey, taskId) ==
  LET r == DELETEresponse(e, tbl, apiKey, taskId)
  IN  IF d = "up" \/ r.stmts = 0 THEN r
      ELSE Responded(500, ErrorJson("Failed to delete task"), tbl, 1,
                     StoreError(d, "Failed to delete task from database"))

\* getTaskStats under d with a slip: the catch block throws like the catch
\* blocks of the other operations
getTaskStatsOn_Rethrows(d, tbl, t) ==
  CASE d = "up" -> Return(getTaskStats(tbl, t), tbl)
    [] d = "down" -> Throw("Failed to fetch task stats from database", tbl)
    [] d = "unconfigured" -> Throw(NotConfigured, tbl)

\* getTaskStats under d: its catch block returns zeros; getPool is called
\* before the try block
getTaskStatsOn(d, tbl, t) ==
  CASE d = "up" -> Return(getTaskStats(tbl, t), tbl)
    [] d = "down" -> Return([total |-> 0, todo |-> 0, in_progress |-> 0,
                             completed |-> 0, overdue |-> 0], tbl)
    [] d = "unconfigured" -> Throw(NotConfigured, tbl)

(***************************************************************************)
(* The requests the environment sends.                                     *)
(***************************************************************************)
\* the configurations the process may be started with
Envs ==
  [API_SECRET_KEY : {Undefined, "mgr-secret"},
   NEXT_PUBLIC_TEAM_API_KEY : {Undefined, "team-secret"}]

\* the x-api-key headers sent (Null: no header)
ApiKeys == {Null, "mgr-secret", "team-member-access", "team-secret", "wrong"}

\* the ids callers supply
TaskIds == {"a", "b"}

BodyKeys ==
  {"id", "title", "description", "priority", "due_date", "assigned_to",
   "status", "pushed_by", "created_at", "updated_at"}

OptionalKeys ==
  {"description", "priority", "due_date", "assigned_to", "status", "pushed_by"}

\* the values sent under an optional key
FieldValues(k) ==
  CASE k = "description" -> {"", "d1"}
    [] k = "priority" -> {"urgent", "extreme"}
    [] k = "due_date" -> {DateOnly(2), toISOString(2), "soon"}
    [] k = "assigned_to" -> {"bob"}
    [] k = "status" -> {"in_progress", "completed", "done", Null}
    [] k = "pushed_by" -> {"Manager"}

\* the JSON object {}
EmptyBody == [k \in BodyKeys |-> Undefined]

\* a body carrying every key of a task
FullBody ==
  [id |-> Undefined, title |-> "t1", description |-> "d1", priority |-> "urgent",
   due_date |-> DateOnly(2), assigned_to |-> "bob", status |-> "completed",
   pushed_by |-> "Manager", created_at |-> Undefined, updated_at |-> Undefined]

\* a body carrying every updatable key and, besides, the keys id,
\* created_at and updated_at
StampedBody ==
  [FullBody EXCEPT !.title = "t2", !.id = "b", !.created_at = toISOString(0),
                   !.updated_at = toISOString(0)]

\* bodies carrying at most one optional key
OneKeyBodies ==
  {EmptyBody} \cup
  {[EmptyBody EXCEPT ![k] = v] : <<k, v>> \in
     UNION {{<<k, v>> : v \in FieldValues(k)} : k \in OptionalKeys}}

\* the bodies of create requests
PostBodies ==
  {[b EXCEPT !.title = "t1", !.id = i] :
     b \in OneKeyBodies \cup {FullBody}, i \in TaskIds \cup {Undefined}}
  \cup {[b EXCEPT !.title = ti] : b \in {EmptyBody, FullBody}, ti \in {Undefined, ""}}

\* the bodies of update requests: {}, one updatable key, keys updateTask
\* does not recognise, every updatable key
PutBodies ==
  OneKeyBodies
  \cup {[EmptyBody EXCEPT !.title = ti] : ti \in {"t2", "", Null}}
  \cup {[EmptyBody EXCEPT !.id = "b"],
        [EmptyBody EXCEPT !.created_at = toISOString(0)],
        [EmptyBody EXCEPT !.updated_at = toISOString(0)],
        [FullBody EXCEPT !.title = "t2"],
        StampedBody}

\* bodies carrying any set of the updatable keys
AnyKeysBodies ==
  {[k \in BodyKeys |-> IF k \in S THEN [FullBody EXCEPT !.title = "t2"][k] ELSE Undefined] :
     S \in SUBSET UpdatableFields}

\* the status filters of read requests (Null: no status parameter)
StatusFilters == {Null, "", "todo", "in_progress", "completed", "done"}

\* the ids of update and delete requests in a state whose table is tbl
\* (Null: no id parameter)
QueryIds(tbl) == {Null} \cup TaskIds \cup DOMAIN tbl

(***************************************************************************)
(* The requests the state machine is driven with: a sample of the sets     *)
(* above.  The theorems examine every request of the full sets in every    *)
(* state this sample reaches.                                              *)
(***************************************************************************)
SentPostBodies ==
  {[EmptyBody EXCEPT !.title = "t1", !.id = i] : i \in {"a", Undefined}}
  \cup {[EmptyBody EXCEPT !.title = "t1", !.id = "b", !.due_date = toISOString(2),
                          !.pushed_by = ""],
        [FullBody EXCEPT !.id = "a"],
        [EmptyBody EXCEPT !.title = "t1", !.id = "a", !.priority = "extreme"],
        EmptyBody,
        [FullBody EXCEPT !.title = ""]}

SentPutBodies ==
  {EmptyBody,
   [EmptyBody EXCEPT !.status = "completed"],
   [EmptyBody EXCEPT !.title = "t2", !.status = "done"],
   [EmptyBody EXCEPT !.id = "b"],
   [EmptyBody EXCEPT !.due_date = "soon"],
   StampedBody}

SentStatusFilters == {Null, "", "completed"}

\* the headers sent to the handlers that read x-api-key
SentApiKeys == {Null, "mgr-secret", "team-member-access"}

\* the headers sent to the handlers that do not read x-api-key
SentOpenKeys == {Null, "mgr-secret"}

(***************************************************************************)
(* The state machine.  now is the database clock: every statement reads it *)
(* as NOW(), and once a statement has stamped a row with it the clock has  *)
(* moved on, so that a later statement reads a later instant.              *)
(* last records the request served last: the x-api-key header              *)
(* and the body as far as the handler read them, the id the request is     *)
(* about, the response, the number of statements sent, the message of the  *)
(* Error the store threw, the task handed to addTask and the task or list  *)
(* returned.                                                               *)
(***************************************************************************)
\* stands for a header or body the handler did not read
Unread == "<unread>"

\* a row of tbl carries the stamp t
Stamped(tbl, t) == \E id \in DOMAIN tbl : tbl[id].updated_at = <<t>>

\* the module-level pool while none has been created, or after it was
\* discarded (let pool: any = null)
NoPool == 0

\* the pool the module holds after a call of getPool under d, and whether
\* the call constructed one: the existing pool is reused; without a
\* connection string getPool throws before constructing any
getPool(p, d, made) ==
  IF p # NoPool \/ d = "unconfigured" THEN p ELSE made + 1

\* the effect on the pool of a request that reaches the store (called) or
\* returns before it; the pools constructed are numbered in order
Pooled(called) ==
  LET p == IF called THEN getPool(pool, db, pools) ELSE pool
  IN  /\ p # pool => pools < MaxPools
      /\ pool' = p
      /\ pools' = IF p # pool THEN pools + 1 ELSE pools

\* the requests the server is serving concurrently, by the slot of each
Slots == {1, 2}

\* a slot without a request
Idle == [pc |-> "idle"]

NoRequests == [s \in Slots |-> Idle]

\* the browsers that show the board
Clients == {"c1", "c2"}

\* the state of a board before its first fetch: useState<Task[]>([]),
\* useState(true)
Unmounted == [tasks |-> <<>>, loading |-> TRUE]

\* no board is open: no request is under way and nothing was clicked
BoardsClosed ==
  /\ shown = [c \in Clients |-> Unmounted]
  /\ net = {}
  /\ clicks = <<>>

NoRequest ==
  [op |-> "none", key |-> Unread, id |-> Null, arg |-> Unread, status |-> 0,
   error |-> "", stmts |-> 0, thrown |-> "", task |-> Unread, ret |-> Unread]

Init ==
  /\ env \in Envs
  /\ db = "up"
  /\ pool = NoPool
  /\ pools = 0
  /\ reqs = NoRequests
  /\ BoardsClosed
  /\ table = <<>>
  /\ now = 1
  /\ last = NoRequest

\* the record of a served request with response r
Served(op, key, id, arg, task, ret, r) ==
  [op |-> op, key |-> key, id |-> id, arg |-> arg, status |-> r.status,
   error |-> IF r.status = 200 THEN "" ELSE r.json.error,
   stmts |-> r.stmts, thrown |-> r.caught, task |-> task, ret |-> ret]

GET(apiKey, status) ==
  \E r \in GETon(db, env, table, apiKey, status) :
    /\ table' = r.table
    /\ now' = now
    /\ last' = Served("GET", Unread, Null, status, Unread,
                      IF r.status = 200 THEN r.json.tasks ELSE Unread, r)
    /\ Pooled(TRUE)
    /\ UNCHANGED <<env, db, reqs, board>>

POST(apiKey, body) ==
  LET r == POSTon(db, env, table, apiKey, body, now)
      task == NewTask(body, now)
  IN  /\ r.stmts = 0 \/ now <= MaxTime
      /\ table' = r.table
      /\ now' = IF Stamped(r.table, now) THEN now + 1 ELSE now
      /\ last' = Served("POST", apiKey,
                        IF r.stmts = 1 THEN task.id ELSE Null,
                        IF r.status = 401 THEN Unread ELSE body,
                        IF r.stmts = 1 THEN task ELSE Unread,
                        IF r.status = 200 THEN r.json.task ELSE Unread, r)
      /\ Pooled(r.stmts # 0)
      /\ UNCHANGED <<env, db, reqs, board>>

PUT(apiKey, taskId, updates) ==
  LET r == PUTon(db, env, table, apiKey, taskId, updates, now)
  IN  /\ r.stmts = 0 \/ now <= MaxTime
      /\ table' = r.table
      /\ now' = IF Stamped(r.table, now) THEN now + 1 ELSE now
      /\ last' = Served("PUT", Unread, taskId,
                        IF r.status = 400 THEN Unread ELSE updates,
                        Unread,
                        IF r.status = 200 THEN r.json.task ELSE Unread, r)
      /\ Pooled(r.stmts # 0)
      /\ UNCHANGED <<env, db, reqs, board>>

DELETE(apiKey, taskId) ==
  LET r == DELETEon(db, env, table, apiKey, taskId)
  IN  /\ table' = r.table
      /\ now' = now
      /\ last' = Served("DELETE", apiKey, taskId, Unread, Unread, Unread, r)
      /\ Pooled(r.stmts # 0)
      /\ UNCHANGED <<env, db, reqs, board>>

\* a direct call of dbStore.getTaskStats
GetTaskStats ==
  LET stats == getTaskStatsOn(db, table, now)
  IN  /\ last' = IF stats.kind = "return"
                   THEN [NoRequest EXCEPT
                           !.op = "getTaskStats", !.stmts = 1, !.status = 200,
                           !.ret = stats.value]
                   ELSE [NoRequest EXCEPT
                           !.op = "getTaskStats", !.stmts = 1, !.thrown = stats.value]
      /\ Pooled(TRUE)
      /\ UNCHANGED <<env, db, table, now, reqs, board>>

Next ==
  \/ \E apiKey \in SentOpenKeys, status \in SentStatusFilters : GET(apiKey, status)
  \/ \E apiKey \in SentApiKeys, body \in SentPostBodies : POST(apiKey, body)
  \/ \E apiKey \in SentOpenKeys, taskId \in QueryIds(table), updates \in SentPutBodies :
       PUT(apiKey, taskId, updates)
  \/ \E apiKey \in SentApiKeys, taskId \in QueryIds(table) : DELETE(apiKey, taskId)
  \/ GetTaskStats

Spec == Init /\ [][Next]_vars

(***************************************************************************)
(* The state machine with a database that may be unusable from the start,  *)
(* fail and recover, driven with a few requests of every kind.             *)
(***************************************************************************)
\* the database becomes unreachable
Fail ==
  /\ db = "up"
  /\ db' = "down"
  /\ UNCHANGED <<env, pool, pools, table, now, last, reqs, board>>

\* the database is reachable again
Recover ==
  /\ db = "down"
  /\ db' = "up"
  /\ UNCHANGED <<env, pool, pools, table, now, last, reqs, board>>

\* an idle client of the pool reports the lost connection: the listener
\* getPool registered discards the pool
PoolError ==
  /\ db = "down"
  /\ pool # NoPool
  /\ pool' = NoPool
  /\ UNCHANGED <<env, db, pools, table, now, last, reqs, board>>

\* dbStore.close at shutdown: the pool is ended and forgotten
Close ==
  /\ pool # NoPool
  /\ pool' = NoPool
  /\ UNCHANGED <<env, db, pools, table, now, last, reqs, board>>

InitOutage ==
  /\ env = [API_SECRET_KEY |-> "mgr-secret", NEXT_PUBLIC_TEAM_API_KEY |-> Undefined]
  /\ db \in DbConditions
  /\ pool = NoPool
  /\ pools = 0
  /\ reqs = NoRequests
  /\ BoardsClosed
  /\ table = <<>>
  /\ now = 1
  /\ last = NoRequest

OutagePostBodies ==
  {EmptyBody, [EmptyBody EXCEPT !.title = "t1", !.id = "a"]}

OutagePutBodies ==
  {EmptyBody, [EmptyBody EXCEPT !.status = "completed"]}

NextOutage ==
  \/ Fail
  \/ Recover
  \/ PoolError
  \/ Close
  \/ \E status \in {Null, "completed"} : GET(Null, status)
  \/ \E apiKey \in {Null, "mgr-secret"}, body \in OutagePostBodies : POST(apiKey, body)
  \/ \E taskId \in {Null, "a"}, updates \in OutagePutBodies : PUT(Null, taskId, updates)
  \/ \E apiKey \in {Null, "mgr-secret"}, taskId \in {Null, "a"} : DELETE(apiKey, taskId)
  \/ GetTaskStats

SpecOutage == InitOutage /\ [][NextOutage]_vars

(***************************************************************************)
(* The board (app/page.tsx) in the browsers of the team, and the manager   *)
(* who pushes a task.  A request or response under way is a message of     *)
(* net: pc is "sent" for a request the server has not served and           *)
(* "answered" for a response the board has not received.  Equal fetches    *)
(* of one board are one message: their responses are equal and so is what  *)
(* the board does with them.  The server serves each request of a board    *)
(* in one step, as it sends a single statement.                            *)
(***************************************************************************)
\* toggleTaskStatus: newStatus
newStatus(currentStatus) ==
  IF currentStatus = "completed" THEN "todo"
  ELSE IF currentStatus = "todo" THEN "in_progress"
  ELSE "completed"

\* fetch('/api/tasks') of board c
GetRequest(c) ==
  [from |-> c, op |-> "GET", pc |-> "sent", n |-> 0, id |-> Null,
   status |-> Null, ok |-> FALSE, tasks |-> <<>>]

\* fetch(`/api/tasks?id=${taskId}`, {method: 'PUT', body: {status}}) of
\* board c, for its click number n
PutRequest(c, n, taskId, status) ==
  [from |-> c, op |-> "PUT", pc |-> "sent", n |-> n, id |-> taskId,
   status |-> status, ok |-> FALSE, tasks |-> <<>>]

\* the body of the update a click sends
ClickBody(status) == [EmptyBody EXCEPT !.status = status]

\* fetchTasks of board c up to its await: setLoading(true) and the request
fetchTasks(c) ==
  /\ shown' = [shown EXCEPT ![c].loading = TRUE]
  /\ net' = net \cup {GetRequest(c)}

\* the card shows the status the task has in the table, and no update is
\* on its way to the server
Fresh(task) ==
  /\ task.id \in DOMAIN table
  /\ task.status = table[task.id].status
  /\ \A m \in net : ~(m.op = "PUT" /\ m.pc = "sent")

\* setInterval(fetchTasks, 30000), or the refresh button
Refresh(c) ==
  /\ fetchTasks(c)
  /\ UNCHANGED <<server, reqs, clicks>>

\* a click on the status control of the i-th task card of board c; the
\* cards are rendered only while loading is false
Click(c, i) ==
  /\ Len(clicks) < MaxClicks
  /\ ~shown[c].loading
  /\ i \in 1..Len(shown[c].tasks)
  /\ LET task == shown[c].tasks[i]
     IN  /\ net' = net \cup
                  {PutRequest(c, Len(clicks) + 1, task.id, newStatus(task.status))}
         /\ clicks' = Append(clicks,
                             [by |-> c, id |-> task.id, seen |-> task.status,
                              fresh |-> Fresh(task)])
  /\ UNCHANGED <<server, reqs, shown>>

\* the server serves a fetch: GET without a status parameter
ServeGet(m) ==
  /\ m \in net
  /\ m.op = "GET"
  /\ m.pc = "sent"
  /\ \E r \in GETon(db, env, table, Null, Null) :
       net' = (net \ {m}) \cup
                {[m EXCEPT !.pc = "answered", !.ok = (r.status = 200),
                           !.tasks = IF r.status = 200 THEN r.json.tasks ELSE <<>>]}
  /\ Pooled(TRUE)
  /\ UNCHANGED <<env, db, table, now, last, reqs, shown, clicks>>

\* the update served with a slip: the server advances the stored status
\* along the cycle instead of storing the status it was sent
ServePut_AdvancesStored(m) ==
  /\ m \in net
  /\ m.op = "PUT"
  /\ m.pc = "sent"
  /\ LET sent == IF m.id \in DOMAIN table
                   THEN newStatus(table[m.id].status) ELSE m.status
         r == PUTon(db, env, table, Null, m.id, ClickBody(sent), now)
     IN  /\ table' = r.table
         /\ now' = IF Stamped(r.table, now) THEN now + 1 ELSE now
         /\ net' = (net \ {m}) \cup
                    {[m EXCEPT !.pc = "answered", !.ok = (r.status = 200)]}
         /\ Pooled(r.stmts # 0)
  /\ UNCHANGED <<env, db, last, reqs, shown, clicks>>

\* the server serves the update of a click
ServePut(m) ==
  /\ m \in net
  /\ m.op = "PUT"
  /\ m.pc = "sent"
  /\ LET r == PUTon(db, env, table, Null, m.id, ClickBody(m.status), now)
     IN  /\ table' = r.table
         /\ now' = IF Stamped(r.table, now) THEN now + 1 ELSE now
         /\ net' = (net \ {m}) \cup
                    {[m EXCEPT !.pc = "answered", !.ok = (r.status = 200)]}
         /\ Pooled(r.stmts # 0)
  /\ UNCHANGED <<env, db, last, reqs, shown, clicks>>

\* fetchTasks with a slip: the response is dropped once a list is shown
ReceiveGet_KeepsFirstList(m) ==
  /\ m \in net
  /\ m.op = "GET"
  /\ m.pc = "answered"
  /\ shown' = [shown EXCEPT ![m.from] =
                 [tasks |-> IF m.ok /\ @.tasks = <<>> THEN m.tasks ELSE @.tasks,
                  loading |-> FALSE]]
  /\ net' = net \ {m}
  /\ UNCHANGED <<server, reqs, clicks>>

\* fetchTasks after its await: setTasks(data.tasks) if data.success, and
\* setLoading(false)
ReceiveGet(m) ==
  /\ m \in net
  /\ m.op = "GET"
  /\ m.pc = "answered"
  /\ shown' = [shown EXCEPT ![m.from] =
                 [tasks |-> IF m.ok THEN m.tasks ELSE @.tasks, loading |-> FALSE]]
  /\ net' = net \ {m}
  /\ UNCHANGED <<server, reqs, clicks>>

\* toggleTaskStatus after its await: fetchTasks() if response.ok
ReceivePut(m) ==
  /\ m \in net
  /\ m.op = "PUT"
  /\ m.pc = "answered"
  /\ IF m.ok
       THEN /\ shown' = [shown EXCEPT ![m.from].loading = TRUE]
            /\ net' = (net \ {m}) \cup {GetRequest(m.from)}
       ELSE /\ shown' = shown
            /\ net' = net \ {m}
  /\ UNCHANGED <<server, reqs, clicks>>

\* the tasks the manager pushes to the board: without a status and in each
\* status
PushedBodies ==
  {[EmptyBody EXCEPT !.title = "t1", !.id = "a", !.status = s] :
     s \in {Undefined, "in_progress", "completed"}}

\* the manager pushes a task to the empty board
Push(body) ==
  LET r == POSTon(db, env, table, "mgr-secret", body, now)
  IN  /\ table = <<>>
      /\ now = 1
      /\ table' = r.table
      /\ now' = IF Stamped(r.table, now) THEN now + 1 ELSE now
      /\ Pooled(r.stmts # 0)
      /\ UNCHANGED <<env, db, last, reqs, board>>

\* the boards cs have been opened: useEffect has called fetchTasks
Mounted(cs) ==
  /\ env = [API_SECRET_KEY |-> "mgr-secret", NEXT_PUBLIC_TEAM_API_KEY |-> Undefined]
  /\ db = "up"
  /\ pool = NoPool
  /\ pools = 0
  /\ table = <<>>
  /\ now = 1
  /\ last = NoRequest
  /\ reqs = NoRequests
  /\ shown = [c \in Clients |-> Unmounted]
  /\ net = {GetRequest(c) : c \in cs}
  /\ clicks = <<>>

\* the server and the manager
ServerSteps ==
  \/ \E body \in PushedBodies : Push(body)
  \/ \E m \in net : ServeGet(m)
  \/ \E m \in net : ServePut(m)

\* one board, whose user clicks at will
InitBoard == Mounted({"c1"})

NextBoard ==
  \/ ServerSteps
  \/ Refresh("c1")
  \/ \E i \in 1..Len(shown["c1"].tasks) : Click("c1", i)
  \/ \E m \in net : ReceiveGet(m)
  \/ \E m \in net : ReceivePut(m)

SpecBoard == InitBoard /\ [][NextBoard]_vars

\* c has not clicked yet
NotClicked(c) == \A k \in 1..Len(clicks) : clicks[k].by # c

\* two boards, each user clicking once
InitBoards == Mounted(Clients)

NextBoards ==
  \/ ServerSteps
  \/ \E c \in Clients : NotClicked(c) /\ Refresh(c)
  \/ \E c \in Clients :
       \E i \in 1..Len(shown[c].tasks) : NotClicked(c) /\ Click(c, i)
  \/ \E m \in net : ReceiveGet(m)
  \/ \E m \in net : ReceivePut(m)

SpecBoards == InitBoards /\ [][NextBoards]_vars

(***************************************************************************)
(* One board whose timer keeps firing, whose fetches are served and whose  *)
(* responses arrive, each of them some time after it was sent and in any   *)
(* order; the user clicks once.                                            *)
(***************************************************************************)
\* the list the read endpoint returns now
Listed == (CHOOSE r \in GETon(db, env, table, Null, Null) : TRUE).json.tasks

\* a response that carries an older list
Stale(m) == m.op = "GET" /\ m.pc = "answered" /\ m.tasks # Listed

NextRefresh ==
  \/ ServerSteps
  \/ Refresh("c1")
  \/ \E i \in 1..Len(shown["c1"].tasks) : NotClicked("c1") /\ Click("c1", i)
  \/ \E m \in net : ReceiveGet(m)
  \/ \E m \in net : ReceivePut(m)

\* the timer fires, the server answers the fetches, and every response
\* arrives
FairRefresh ==
  /\ WF_vars(Refresh("c1"))
  /\ WF_vars(\E m \in net : ServeGet(m))
  /\ WF_vars(\E m \in net : Stale(m) /\ ReceiveGet(m))
  /\ WF_vars(\E m \in net : ~Stale(m) /\ ReceiveGet(m))

SpecRefresh == InitBoard /\ [][NextRefresh]_vars /\ FairRefresh

(***************************************************************************)
(* Requests served concurrently.  Two invocations of the route handlers    *)
(* overlap: each reads Date.now() and x-api-key when it is received, sends *)
(* its single statement some time later, and the database executes the     *)
(* statements of the two one after the other, in either order.  A request  *)
(* received while the other slot holds a response waits until that         *)
(* response has been collected, so that two responses held together belong *)
(* to requests that overlapped.                                            *)
(***************************************************************************)
\* the task the table holds when the concurrent requests arrive
StoredTask == NewTask([EmptyBody EXCEPT !.title = "t1", !.id = "a"], 0)

\* the requests sent concurrently: updates of a, creations of b and
\* creations without id, deletions of a
ConcurrentRequests ==
  {[op |-> "PUT", key |-> Null, id |-> "a", body |-> b] :
     b \in {[EmptyBody EXCEPT !.status = "completed"],
            [EmptyBody EXCEPT !.status = "in_progress"],
            [EmptyBody EXCEPT !.title = "t2", !.assigned_to = "bob"]}}
  \cup
  {[op |-> "POST", key |-> "mgr-secret", id |-> Null, body |-> b] :
     b \in {[EmptyBody EXCEPT !.title = "t1", !.id = "b"],
            [FullBody EXCEPT !.id = "b"],
            [EmptyBody EXCEPT !.title = "t1"],
            FullBody}}
  \cup
  {[op |-> "DELETE", key |-> "mgr-secret", id |-> "a", body |-> EmptyBody]}

\* the handler is invoked in slot s: POST settles the id of the task with
\* Date.now().  generated and taken record whether the id is the server's
\* and whether the task the request names was stored when it arrived
Receive(s, q) ==
  /\ reqs[s].pc = "idle"
  /\ \A o \in Slots \ {s} : reqs[o].pc # "done"
  /\ reqs' = [reqs EXCEPT ![s] =
                [pc |-> "received", op |-> q.op, key |-> q.key, id |-> q.id,
                 body |-> IF q.op = "POST"
                            THEN [q.body EXCEPT !.id = NewTask(q.body, now).id]
                            ELSE q.body,
                 generated |-> (q.op = "POST" /\ ~Truthy(q.body.id)),
                 taken |-> (IF q.op = "POST" THEN NewTask(q.body, now).id
                                              ELSE q.id) \in DOMAIN table,
                 status |-> 0, stmts |-> 0]]
  /\ UNCHANGED <<server, board>>

\* the response of the request in slot s when its statement is executed on
\* the table tbl at the database instant t
Executed(q, tbl, t) ==
  CASE q.op = "POST" -> POSTon(db, env, tbl, q.key, q.body, t)
    [] q.op = "PUT" -> PUTon(db, env, tbl, q.key, q.id, q.body, t)
    [] q.op = "DELETE" -> DELETEon(db, env, tbl, q.key, q.id)

\* the handler in slot s sends its statement and builds its response
Execute(s) ==
  /\ reqs[s].pc = "received"
  /\ LET r == Executed(reqs[s], table, now)
     IN  /\ (r.stmts = 0 \/ reqs[s].op = "DELETE") \/ now <= MaxTime
         /\ table' = r.table
         /\ now' = IF Stamped(r.table, now) THEN now + 1 ELSE now
         /\ reqs' = [reqs EXCEPT ![s].pc = "done", ![s].status = r.status,
                                 ![s].stmts = r.stmts]
         /\ Pooled(r.stmts # 0)
  /\ UNCHANGED <<env, db, last, board>>

\* the response in slot s has been sent
Collect(s) ==
  /\ reqs[s].pc = "done"
  /\ reqs' = [reqs EXCEPT ![s] = Idle]
  /\ UNCHANGED <<server, board>>

InitConcurrent ==
  /\ env = [API_SECRET_KEY |-> "mgr-secret", NEXT_PUBLIC_TEAM_API_KEY |-> Undefined]
  /\ db = "up"
  /\ pool = NoPool
  /\ pools = 0
  /\ table = addTask(<<>>, StoredTask, 0).table
  /\ now = 1
  /\ last = NoRequest
  /\ reqs = NoRequests
  /\ BoardsClosed

NextConcurrent ==
  \/ \E s \in Slots, q \in ConcurrentRequests : Receive(s, q)
  \/ \E s \in Slots : Execute(s)
  \/ \E s \in Slots : Collect(s)

SpecConcurrent == InitConcurrent /\ [][NextConcurrent]_vars

(***************************************************************************)
(* Properties.  In every reachable state the theorems examine the outcome  *)
(* of every request of the full request sets.                              *)
(***************************************************************************)
\* the stamps of the stored rows lie in the past of the clock
StampsInPast ==
  \A id \in DOMAIN table :
    /\ table[id].created_at[1] < now
    /\ table[id].updated_at[1] < now

\* the tasks handed to addTask: those POST builds, and the same tasks
\* without a description
CreateInputs ==
  {NewTask(body, now) : body \in PostBodies} \cup
  {[NewTask(body, now) EXCEPT !.description = Undefined] : body \in PostBodies}

\* a valid create input for the table: non-empty title, priority and status
\* inside their enumerations, a due_date (if any) that denotes an instant,
\* an id not yet stored
ValidCreateInput(tbl, task) ==
  /\ Truthy(task.title)
  /\ Truthy(task.due_date) => Parsable(task.due_date)
  /\ task.priority \in Priorities
  /\ task.status \in Statuses
  /\ task.id \notin DOMAIN tbl

CallerFields ==
  {"id", "title", "description", "priority", "due_date", "assigned_to",
   "status", "pushed_by"}

\* C1 as stated: for every valid create input, after addTask succeeds
\* getTaskById(id) returns a record whose id, title, description, priority,
\* due_date, assigned_to, status and pushed_by equal the values the caller
\* supplied, and whose created_at equals its updated_at.  (last.task is
\* the task the create request handed to addTask.)
ClaimC1 ==
  (last.op = "POST" /\ last.status = 200) =>
    LET got == getTaskById(table, last.id)
    IN  /\ got.kind = "return"
        /\ \A f \in CallerFields :
             last.task[f] # Undefined => got.value[f] = last.task[f]
        /\ got.value.created_at = got.value.updated_at

\* what addTask stores and returns for every valid input, in one state
AddedAsStored ==
  \A task \in CreateInputs :
    ValidCreateInput(table, task) =>
      LET added == addTask(table, task, now)
          got == getTaskById(added.table, task.id)
      IN  /\ added.kind = "return"
          /\ got.kind = "return"
          /\ got.value = added.value
          /\ \A f \in {"id", "title", "priority", "status", "pushed_by"} :
               got.value[f] = task[f]
          /\ \A f \in {"description", "assigned_to"} :
               got.value[f] = IF Truthy(task[f]) THEN task[f] ELSE Null
          /\ got.value.due_date =
               IF Truthy(task.due_date)
                 THEN toISOString(NewDate(task.due_date)) ELSE Undefined
          /\ got.value.created_at = got.value.updated_at
          /\ got.value.created_at = toISOString(now)

\* C1 amended: id, title, priority, status and pushed_by come back as
\* supplied; description and assigned_to come back as supplied when they are
\* non-empty strings and as null when empty or absent; due_date comes back
\* as the toISOString rendering of the instant the supplied date denotes
\* (absent when none was supplied); created_at equals updated_at; the record
\* addTask returns is the one getTaskById returns.
TheoremC1 == []AddedAsStored

\* a create was served whose task carried a description and a date-only
\* due_date, and the stored record is the one it returned, its due_date
\* rendered by toISOString
WitnessC1 ==
  /\ last.op = "POST"
  /\ last.status = 200
  /\ last.task.description = "d1"
  /\ last.task.due_date = DateOnly(2)
  /\ getTaskById(table, last.id).kind = "return"
  /\ getTaskById(table, last.id).value = last.ret
  /\ last.ret.due_date = toISOString(2)
  /\ last.ret.created_at = last.ret.updated_at

\* the secrets of the configuration e: the manager secret (Undefined when
\* it is not configured) and the team secret with its fixed default
ManagerSecret(e) == e.API_SECRET_KEY
TeamSecret(e) ==
  IF Truthy(e.NEXT_PUBLIC_TEAM_API_KEY)
    THEN e.NEXT_PUBLIC_TEAM_API_KEY ELSE "team-member-access"

\* the header equals the manager secret or the team secret
SecretMatches(e, apiKey) ==
  apiKey = ManagerSecret(e) \/ apiKey = TeamSecret(e)

\* C2 as stated: a create request is authorized exactly when its x-api-key
\* header equals the manager secret or the team secret; a request with a
\* missing or non-matching header is answered 401 and writes nothing.
ClaimC2 ==
  last.op = "POST" =>
    /\ last.status # 401 <=> SecretMatches(env, last.key)
    /\ last.status = 401 => last.stmts = 0

\* C2 amended: provided the manager secret is configured, a create request
\* is authorized exactly when its x-api-key header equals the manager secret
\* or the team secret (with its default); when the manager secret is not
\* configured no create request is authorized.  An unauthorized request is
\* answered 401 without a statement being sent and leaves the store
\* unchanged; the same body with an accepted header, when it is a valid
\* create input, is answered 200 and its task is stored.
TheoremC2 ==
  \A apiKey \in ApiKeys, body \in PostBodies :
    LET r == POSTresponse(env, table, apiKey, body, now)
        authorized == Truthy(ManagerSecret(env)) /\ SecretMatches(env, apiKey)
        task == NewTask(body, now)
    IN  /\ r.status = 401 <=> ~authorized
        /\ r.status = 401 =>
             /\ r.table = table
             /\ r.stmts = 0
             /\ r.json = ErrorJson("Unauthorized - Invalid API key")
        /\ (authorized /\ ValidCreateInput(table, task)) =>
             /\ r.status = 200
             /\ task.id \in DOMAIN r.table
             /\ \A id \in DOMAIN table : r.table[id] = table[id]
             /\ r.json.task = rowToTask(r.table[task.id])

\* with the manager secret configured, a create without the header was
\* answered 401 while tasks created with the secret are stored
WitnessC2 ==
  /\ last.op = "POST"
  /\ last.status = 401
  /\ last.key = Null
  /\ Truthy(ManagerSecret(env))
  /\ table # <<>>

\* C3 as stated: the id of a task is unique in the store; a create whose id
\* already exists fails with a Conflict error, never overwrites and leaves
\* the existing record unmodified.  (The table is a function of the id, so
\* an id is stored at most once; last'.id is the id handed to addTask.)
ClaimC3 ==
  [][(last'.op = "POST" /\ last'.stmts = 1 /\ last'.id \in DOMAIN table) =>
       /\ last'.status # 200
       /\ last'.thrown = "Conflict"
       /\ table' = table]_vars

\* what does hold of a create whose id already exists: it fails with the
\* Error addTask throws for every failed INSERT, answered 500, and the
\* table is left as it was
DuplicateCreateFails ==
  [][(last'.op = "POST" /\ last'.stmts = 1 /\ last'.id \in DOMAIN table) =>
       /\ last'.status = 500
       /\ last'.thrown = "Failed to add task to database"
       /\ last'.error = "Failed to create task"
       /\ table' = table]_vars

\* C4 as stated: a create request whose priority or status is outside its
\* enumeration is rejected with a validation error (HTTP 400) detected
\* before the value reaches storage, and no row is written.
ClaimC4 ==
  [][(/\ last'.op = "POST"
      /\ last'.status # 401
      /\ \/ OrElse(last'.arg.priority, "normal") \notin Priorities
         \/ OrElse(last'.arg.status, "todo") \notin Statuses) =>
       /\ last'.status = 400
       /\ last'.stmts = 0
       /\ table' = table]_vars

\* what does hold of such a request when it carries a title: the value is
\* sent to the database, whose CHECK constraint rejects the INSERT, and the
\* request is answered 500; no row is written
InvalidEnumCreateFails ==
  [][(/\ last'.op = "POST"
      /\ last'.status # 401
      /\ Truthy(last'.arg.title)
      /\ \/ OrElse(last'.arg.priority, "normal") \notin Priorities
         \/ OrElse(last'.arg.status, "todo") \notin Statuses) =>
       /\ last'.status = 500
       /\ last'.stmts = 1
       /\ last'.thrown = "Failed to add task to database"
       /\ table' = table]_vars

\* every row of tbl has its status and its priority inside the enumerations
EnumsOk(tbl) ==
  \A id \in DOMAIN tbl :
    /\ tbl[id].status \in Statuses
    /\ tbl[id].priority \in Priorities

\* the enumerations hold of the table and of the table one request later
EnumsKept ==
  /\ EnumsOk(table)
  /\ \A body \in PostBodies :
       EnumsOk(POSTresponse(env, table, ManagerSecret(env), body, now).table)
  /\ \A taskId \in DOMAIN table, updates \in PutBodies :
       EnumsOk(PUTresponse(env, table, Null, taskId, updates, now).table)

\* C5: in every reachable state, after any sequence of create, update and
\* delete requests (successful or failed), every stored task has its status
\* in {todo, in_progress, completed} and its priority in {low, normal, high,
\* urgent}; checked of the table and of the table every further create or
\* update request would leave.
TheoremC5 == []EnumsKept

\* an update with a status outside the enumeration was answered 500 and
\* the task it named is stored with a status of the enumeration
WitnessC5 ==
  /\ last.op = "PUT"
  /\ last.status = 500
  /\ last.arg.status = "done"
  /\ last.id \in DOMAIN table
  /\ table[last.id].status \in Statuses

\* what updateTask sets and keeps for every stored id and every update
UpdateSetsSupplied ==
  \A id \in DOMAIN table, updates \in PutBodies \cup AnyKeysBodies :
    LET r == updateTask(table, id, updates, now)
        old == table[id]
    IN  fields(updates) # {} =>
          /\ r.kind \in {"return", "throw"}
          /\ r.kind = "throw" => r.table = table
          /\ (fields(updates) = {"status"} /\ updates.status \in Statuses) =>
               r.kind = "return"
          /\ r.kind = "return" =>
               LET new == r.table[id]
               IN  /\ DOMAIN r.table = DOMAIN table
                   /\ \A other \in DOMAIN table \ {id} : r.table[other] = table[other]
                   /\ \A f \in UpdatableFields \ fields(updates) : new[f] = old[f]
                   /\ \A f \in fields(updates) : new[f] = UpdateValue(f, updates[f])
                   /\ new.id = old.id
                   /\ new.created_at = old.created_at
                   /\ new.updated_at[1] > old.updated_at[1]
                   /\ r.value = rowToTask(new)

\* C6: updateTask(id, {status: s}) on an existing task changes only status
\* and updated_at, and the new updated_at is strictly greater than the prior
\* one; more generally, for every subset of the seven updatable fields, the
\* supplied fields are set (to the value updateTask sends for them) and the
\* absent ones, id and created_at keep their values, the other rows are
\* left alone, and an update the database rejects changes nothing.
TheoremC6 == []UpdateSetsSupplied

\* an update carrying only a status was served: the task has the new status
\* and a later updated_at, and the title and priority it was created with
WitnessC6 ==
  /\ last.op = "PUT"
  /\ last.status = 200
  /\ fields(last.arg) = {"status"}
  /\ table[last.id].status = "completed"
  /\ table[last.id].updated_at[1] > table[last.id].created_at[1]
  /\ table[last.id].title = "t1"
  /\ table[last.id].priority = "normal"

\* C7: updateTask(id, u) where u carries none of the recognised fields
\* performs no write: the table is left as it is, the current record is
\* returned (null when there is none) and the stored updated_at is not
\* advanced.
TheoremC7 ==
  \A id \in TaskIds \cup DOMAIN table, updates \in PutBodies :
    fields(updates) = {} =>
      LET r == updateTask(table, id, updates, now)
      IN  /\ r.table = table
          /\ id \in DOMAIN table =>
               /\ r.kind = "return"
               /\ r.value = rowToTask(table[id])
               /\ r.value.updated_at = toISOString(table[id].updated_at[1])
          /\ id \notin DOMAIN table => r.kind = "null"

\* an update whose body carries only the key id was served for a stored
\* task: the record came back as it is stored, its updated_at still that of
\* its creation
WitnessC7 ==
  /\ last.op = "PUT"
  /\ last.status = 200
  /\ fields(last.arg) = {}
  /\ last.arg.id = "b"
  /\ last.ret = rowToTask(table[last.id])
  /\ table[last.id].updated_at = table[last.id].created_at

\* the ids a request may name in a state whose table is tbl
KnownIds(tbl) == TaskIds \cup DOMAIN tbl

\* C8, in every state: deleteTask(id) on a stored task returns true and
\* removes that row only; then getTaskById(id) returns null, no listing
\* under any filter holds the task, and a second deleteTask(id) returns
\* false (it does not throw) and leaves the table as it is.
DeleteThenAbsent ==
  \A id \in KnownIds(table) :
    LET first == deleteTask(table, id)
        second == deleteTask(first.table, id)
    IN  /\ first.kind = "return"
        /\ first.value = (id \in DOMAIN table)
        /\ DOMAIN first.table = DOMAIN table \ {id}
        /\ \A other \in DOMAIN first.table : first.table[other] = table[other]
        /\ getTaskById(first.table, id).kind = "null"
        /\ \A f \in StatusFilters :
             \A tasks \in getTasks(first.table, OrElse(f, Undefined)) :
               \A i \in DOMAIN tasks : tasks[i].id # id
        /\ second.kind = "return"
        /\ second.value = FALSE
        /\ second.table = first.table

\* C8, in every step: an id that is not stored becomes stored only by a
\* create request carrying that id that is answered 200; a delete request
\* answered 200 removes the row it names and no other, and one answered 404
\* named an id that was not stored, threw nothing and changed nothing.
AbsentUntilCreate ==
  /\ \A id \in DOMAIN table' \ DOMAIN table :
       /\ last'.op = "POST"
       /\ last'.status = 200
       /\ last'.id = id
  /\ (last'.op = "DELETE" /\ last'.status = 200) =>
       /\ last'.id \in DOMAIN table
       /\ DOMAIN table' = DOMAIN table \ {last'.id}
       /\ \A other \in DOMAIN table' : table'[other] = table[other]
  /\ (last'.op = "DELETE" /\ last'.status = 404) =>
       /\ last'.id \notin DOMAIN table
       /\ last'.thrown = ""
       /\ table' = table

\* C8: after deleteTask(id) on an existing task returns true, getTaskById(id)
\* returns not-found and the task is absent from every later listing until
\* an explicit create with that id; a second deleteTask(id) returns false
\* without raising an error and leaves the store unchanged.
TheoremC8 == []DeleteThenAbsent /\ [][AbsentUntilCreate]_vars

\* a delete request was answered 200: the task it named is no longer stored
\* nor listed while another task still is, and deleting it again returns
\* false
WitnessC8 ==
  /\ last.op = "DELETE"
  /\ last.status = 200
  /\ last.id \notin DOMAIN table
  /\ getTaskById(table, last.id).kind = "null"
  /\ DOMAIN table # {}
  /\ deleteTask(table, last.id).value = FALSE

\* the stored ids a read with status filter f selects: those of the tasks
\* whose status equals f, all of them when f is absent or empty
Selected(tbl, f) ==
  IF Truthy(f) THEN {id \in DOMAIN tbl : tbl[id].status = f} ELSE DOMAIN tbl

\* C9: the read endpoint with status filter f returns exactly the stored
\* tasks whose status equals f (none missing, none extra, none twice), as
\* they are stored, ordered by created_at descending, with count equal to
\* the number of tasks returned; without a filter (or with an empty one) it
\* returns all stored tasks in the same order; an empty result is a success
\* with an empty list and count 0; the response is the same under every
\* x-api-key header and every configuration of the secrets, and the store
\* is left unchanged.
TheoremC9 ==
  \A f \in StatusFilters :
    LET rs == GETresponses(env, table, Null, f)
    IN  /\ rs # {}
        /\ \A apiKey \in ApiKeys, e \in Envs : GETresponses(e, table, apiKey, f) = rs
        /\ \A r \in rs :
             LET tasks == r.json.tasks
                 n == Len(tasks)
             IN  /\ r.status = 200
                 /\ r.json.success
                 /\ r.table = table
                 /\ r.json.count = n
                 /\ {tasks[i].id : i \in 1..n} = Selected(table, f)
                 /\ n = Cardinality(Selected(table, f))
                 /\ \A i \in 1..n : tasks[i] = rowToTask(table[tasks[i].id])
                 /\ \A i, j \in 1..n :
                      i < j => table[tasks[i].id].created_at[1]
                                 >= table[tasks[j].id].created_at[1]
                 /\ Selected(table, f) = {} => (tasks = <<>> /\ r.json.count = 0)

\* a read with the filter completed was served while two tasks are stored,
\* one of them completed: the list holds that task only; and the unfiltered
\* read of the same store gives the later task first
WitnessC9 ==
  /\ last.op = "GET"
  /\ last.arg = "completed"
  /\ last.status = 200
  /\ Cardinality(DOMAIN table) = 2
  /\ Len(last.ret) = 1
  /\ last.ret[1].status = "completed"
  /\ \A r \in GETresponses(env, table, Null, Null) :
       /\ Len(r.json.tasks) = 2
       /\ table[r.json.tasks[1].id].created_at[1] > table[r.json.tasks[2].id].created_at[1]

\* the number of stored tasks with status s
CountStatus(tbl, s) == Cardinality({id \in DOMAIN tbl : tbl[id].status = s})

\* the number of stored tasks whose due_date is set and earlier than t and
\* whose status is not completed
CountOverdue(tbl, t) ==
  Cardinality({id \in DOMAIN tbl :
                 /\ tbl[id].due_date # <<>>
                 /\ tbl[id].due_date[1] < t
                 /\ tbl[id].status # "completed"})

\* C10: for every store content, getTaskStats returns total = number of
\* tasks, todo / in_progress / completed = number of tasks with that status
\* (so total = todo + in_progress + completed), and overdue = number of
\* tasks whose due_date is set and earlier than the current time and whose
\* status is not completed; on an empty table all five counts are 0; and
\* the call served last returned these numbers.
TheoremC10 ==
  LET stats == getTaskStats(table, now)
  IN  /\ stats.total = Cardinality(DOMAIN table)
      /\ stats.todo = CountStatus(table, "todo")
      /\ stats.in_progress = CountStatus(table, "in_progress")
      /\ stats.completed = CountStatus(table, "completed")
      /\ stats.total = stats.todo + stats.in_progress + stats.completed
      /\ stats.overdue = CountOverdue(table, now)
      /\ table = <<>> =>
           stats = [total |-> 0, todo |-> 0, in_progress |-> 0, completed |-> 0,
                    overdue |-> 0]
      /\ last.op = "getTaskStats" => last.ret = stats

\* getTaskStats was called on a store of two tasks, a completed one and a
\* todo one, both with a due_date in the past: one task is overdue
WitnessC10 ==
  /\ last.op = "getTaskStats"
  /\ last.ret = [total |-> 2, todo |-> 1, in_progress |-> 0, completed |-> 1,
                 overdue |-> 1]
  /\ \A id \in DOMAIN table :
       table[id].due_date # <<>> /\ table[id].due_date[1] < now

\* C11: the update endpoint performs no authorization check: for every
\* task id and body, the response of a PUT and the table it leaves are the
\* same whether the x-api-key header is absent, wrong or correct, and
\* whatever secrets are configured; in particular a header that a create
\* request is refused with updates a stored task.
TheoremC11 ==
  \A taskId \in QueryIds(table), updates \in SentPutBodies :
    LET r == PUTresponse(env, table, Null, taskId, updates, now)
    IN  /\ r.status # 401
        /\ \A apiKey \in ApiKeys : PUTresponse(env, table, apiKey, taskId, updates, now) = r
        /\ \A e \in Envs : PUTresponse(e, table, "wrong", taskId, updates, now) = r

\* an update was answered 200 for a stored task; the handler read no
\* header, and the same request under a header that create refuses gets the
\* same answer
WitnessC11 ==
  /\ last.op = "PUT"
  /\ last.status = 200
  /\ last.key = Unread
  /\ fields(last.arg) # {}
  /\ table[last.id].updated_at[1] = now - 1
  /\ ~verifyApiKey(env, "wrong")
  /\ POSTresponse(env, table, "wrong", FullBody, now).status = 401
  /\ PUTresponse(env, table, "wrong", last.id, last.arg, now).status = 200

\* the header is accepted under the configuration e: the manager secret is
\* configured and the header equals it or the team secret
Accepted(e, apiKey) == Truthy(ManagerSecret(e)) /\ SecretMatches(e, apiKey)

StampsOrdered ==
  /\ \A id \in DOMAIN table : table[id].updated_at[1] >= table[id].created_at[1]
  /\ \A id \in KnownIds(table) : getTaskById(table, id).table = table

\* a successful update that supplies a recognised field advances updated_at
\* of the task it names; a listing, a statistics call and an update without
\* a recognised field (which reads the task by id) change no stored field
UpdateAdvancesReadKeeps ==
  /\ (last'.op = "PUT" /\ last'.status = 200 /\ fields(last'.arg) # {}) =>
       /\ last'.id \in DOMAIN table
       /\ table'[last'.id].updated_at[1] > table[last'.id].updated_at[1]
       /\ table'[last'.id].updated_at[1] > table'[last'.id].created_at[1]
  /\ last'.op \in {"GET", "getTaskStats"} => table' = table
  /\ (last'.op = "PUT" /\ last'.status # 400 /\ fields(last'.arg) = {}) => table' = table

\* C13: in every reachable state every stored task satisfies
\* updated_at >= created_at; updated_at advances on every successful update
\* that supplies at least one recognised field, and no read operation (list,
\* get by id, statistics) changes updated_at or any other stored field.
TheoremC13 == []StampsOrdered /\ [][UpdateAdvancesReadKeeps]_vars

\* a listing was served after an update: it shows the task with an
\* updated_at later than its created_at, as it is stored
WitnessC13 ==
  /\ last.op = "GET"
  /\ last.status = 200
  /\ Len(last.ret) >= 1
  /\ last.ret[1].updated_at # last.ret[1].created_at
  /\ last.ret[1] = rowToTask(table[last.ret[1].id])
  /\ table[last.ret[1].id].updated_at[1] > table[last.ret[1].id].created_at[1]

\* update bodies that carry the keys id, created_at or updated_at, alone or
\* together with the updatable keys
OwnedKeyBodies ==
  {StampedBody,
   [EmptyBody EXCEPT !.id = "b"],
   [EmptyBody EXCEPT !.created_at = toISOString(0)],
   [EmptyBody EXCEPT !.updated_at = toISOString(0)],
   [EmptyBody EXCEPT !.status = "completed", !.updated_at = toISOString(0)]}

\* in every state: a row is stored under its own id; an update whose body
\* carries id, created_at or updated_at leaves the id and created_at of the
\* task it names as they are, stores no updated_at other than the one the
\* task had or the instant of the update, and touches no other row; a create
\* whose body carries created_at and updated_at stores the instant of the
\* create for both
OwnedKeysIgnored ==
  /\ \A id \in DOMAIN table : table[id].id = id
  /\ \A id \in DOMAIN table, updates \in OwnedKeyBodies :
       LET r == PUTresponse(env, table, Null, id, updates, now)
       IN  /\ DOMAIN r.table = DOMAIN table
           /\ \A other \in DOMAIN table \ {id} : r.table[other] = table[other]
           /\ r.table[id].id = id
           /\ r.table[id].created_at = table[id].created_at
           /\ r.table[id].updated_at \in {table[id].updated_at, <<now>>}
           /\ fields(updates) # {} => r.status = 200
  /\ LET body == [StampedBody EXCEPT !.id = "fresh"]
         r == POSTresponse(env, table, ManagerSecret(env), body, now)
     IN  r.status = 200 =>
           /\ r.table["fresh"].created_at = <<now>>
           /\ r.table["fresh"].updated_at = <<now>>

\* in every step: a task that is stored before and after the step has the
\* id and the created_at it had, and its updated_at is the one it had or
\* the instant of the step
IdentityKept ==
  \A id \in DOMAIN table \cap DOMAIN table' :
    /\ table'[id].id = table[id].id
    /\ table'[id].created_at = table[id].created_at
    /\ table'[id].updated_at \in {table[id].updated_at, <<now>>}

\* C14: the id and created_at of a stored task never change between its
\* creation and its deletion: no sequence of update requests, whatever keys
\* their bodies carry (including id, created_at and updated_at), alters id or
\* created_at, and a caller-supplied updated_at is never stored.
TheoremC14 == []OwnedKeysIgnored /\ [][IdentityKept]_vars

\* an update whose body carried id, created_at and updated_at besides the
\* updatable keys was answered 200: the task has the new title, its own id
\* and created_at, and the instant of the update as updated_at
WitnessC14 ==
  /\ last.op = "PUT"
  /\ last.status = 200
  /\ last.arg = StampedBody
  /\ last.id = "a"
  /\ table["a"].id = "a"
  /\ table["a"].title = "t2"
  /\ table["a"].created_at = <<1>>
  /\ table["a"].updated_at = <<now - 1>>
  /\ "b" \notin DOMAIN table

\* C15 as stated: an update request for an id that is not in the store is
\* answered NotFound (404) for every body, leaves the store unchanged, and
\* never creates a record.  (last'.id is the id of the query string; a
\* request answered 400 carried none.)
ClaimC15 ==
  [][(last'.op = "PUT" /\ last'.status # 400 /\ last'.id \notin DOMAIN table) =>
       /\ last'.status = 404
       /\ table' = table]_vars

\* what does hold of an update request for an id that is not stored: it is
\* answered 404, except that a body whose due_date denotes no instant is
\* answered 500; in both cases the table is left as it is
UnknownIdUpdate ==
  \A taskId \in TaskIds \cup {"zz"}, updates \in PutBodies \cup AnyKeysBodies :
    taskId \notin DOMAIN table =>
      LET r == PUTresponse(env, table, Null, taskId, updates, now)
          badDate == Truthy(updates.due_date) /\ ~Parsable(updates.due_date)
      IN  /\ r.table = table
          /\ r.status = IF badDate THEN 500 ELSE 404
          /\ badDate => r.json = ErrorJson("Failed to update task")
          /\ ~badDate => r.json = ErrorJson("Task not found")

\* create bodies without a title: the title missing, empty or null, the
\* other keys absent, one of them present, or all of them present
UntitledBodies ==
  {[b EXCEPT !.title = ti] : b \in OneKeyBodies \cup {FullBody},
                             ti \in {Undefined, "", Null}}

\* in every state, every create request with an accepted header and a body
\* without a title is answered 400 'Title is required', without a statement
\* being sent and with the table left as it is
UntitledRefused ==
  \A apiKey \in ApiKeys, body \in UntitledBodies :
    Accepted(env, apiKey) =>
      LET r == POSTresponse(env, table, apiKey, body, now)
      IN  /\ r.status = 400
          /\ r.json = ErrorJson("Title is required")
          /\ r.stmts = 0
          /\ r.table = table

\* in every step, a create request whose body was read and carried no title
\* was answered 400 and wrote nothing
UntitledWritesNothing ==
  (last'.op = "POST" /\ last'.status # 401 /\ ~Truthy(last'.arg.title)) =>
    /\ last'.status = 400
    /\ last'.stmts = 0
    /\ table' = table

\* C16: an authorized create request whose title is missing or empty is
\* answered 400 (validation error) and no row is written, whatever the other
\* fields are.
TheoremC16 == []UntitledRefused /\ [][UntitledWritesNothing]_vars

\* a create with the manager secret and a body complete but for an empty
\* title was answered 400; the store holds what it held, and the same body
\* with a title would have been stored
WitnessC16 ==
  /\ last.op = "POST"
  /\ last.status = 400
  /\ last.key = "mgr-secret"
  /\ last.arg = [FullBody EXCEPT !.title = ""]
  /\ last.error = "Title is required"
  /\ last.stmts = 0
  /\ table # <<>>
  /\ POSTresponse(env, table, "mgr-secret", FullBody, now).status = 200

\* the keys of a create body other than the title
OptionalCreateKeys ==
  {"id", "description", "priority", "due_date", "assigned_to", "status", "pushed_by"}

\* the value stored in column f is the value v the caller supplied (for
\* due_date: the instant the supplied string denotes)
StoredAsSupplied(row, f, v) ==
  IF f = "due_date" THEN row.due_date = <<NewDate(v)>> ELSE row[f] = v

\* C17 as stated: an authorized create request that supplies only a title
\* stores a task with priority normal, status todo, pushed_by 'ChiliHead
\* System' and a server-generated id; every optional field the caller does
\* supply is stored as supplied instead of the default.  (last.arg is the
\* body, last.id the id of the stored task.)
ClaimC17 ==
  (last.op = "POST" /\ last.status = 200) =>
    /\ (\A f \in OptionalCreateKeys : last.arg[f] = Undefined) =>
         /\ table[last.id].priority = "normal"
         /\ table[last.id].status = "todo"
         /\ table[last.id].pushed_by = "ChiliHead System"
         /\ last.id = "task_" \o ToString(now - 1)
    /\ \A f \in OptionalCreateKeys :
         last.arg[f] # Undefined => StoredAsSupplied(table[last.id], f, last.arg[f])

\* create bodies with a title: the other keys absent, one of them present
\* (with a value, an empty string or null), or all of them present
TitledBodies ==
  {[b EXCEPT !.title = "t1"] : b \in OneKeyBodies \cup {FullBody}}
  \cup {[EmptyBody EXCEPT !.title = "t1", ![k] = v] :
          k \in {"id", "priority", "pushed_by", "assigned_to"}, v \in {"", Null}}
  \cup {[EmptyBody EXCEPT !.title = "t1", !.id = "a"]}

\* the value the create stores for key f of the body: a non-empty value
\* as supplied, otherwise the default
StoredFor(body, f, t) ==
  IF Truthy(body[f]) THEN (IF f = "due_date" THEN <<NewDate(body[f])>> ELSE body[f])
  ELSE CASE f = "id" -> "task_" \o ToString(t)
         [] f = "priority" -> "normal"
         [] f = "status" -> "todo"
         [] f = "pushed_by" -> "ChiliHead System"
         [] f = "due_date" -> <<>>
         [] OTHER -> Null

\* a create body POST can store in the table: a title, a priority and a
\* status that are absent, empty or inside their enumerations, a due_date
\* that is absent, empty or denotes an instant, an id not yet stored
ValidCreateBody(tbl, body, t) ==
  /\ Truthy(body.title)
  /\ Truthy(body.priority) => body.priority \in Priorities
  /\ Truthy(body.status) => body.status \in Statuses
  /\ Truthy(body.due_date) => Parsable(body.due_date)
  /\ StoredFor(body, "id", t) \notin DOMAIN tbl

\* C17 amended: an authorized create request that supplies only a title
\* stores a task with priority normal, status todo, pushed_by 'ChiliHead
\* System' and the server-generated id task_<time of the request>; every
\* optional field supplied with a non-empty value is stored as supplied
\* (due_date as the instant it denotes), while a field supplied as an empty
\* string or null is treated as absent: id, priority, status and pushed_by
\* get their defaults, description, assigned_to and due_date are stored as
\* null.
TheoremC17 ==
  \A body \in TitledBodies :
    LET r == POSTresponse(env, table, ManagerSecret(env), body, now)
        id == StoredFor(body, "id", now)
    IN  (Accepted(env, ManagerSecret(env)) /\ ValidCreateBody(table, body, now)) =>
          /\ r.status = 200
          /\ DOMAIN r.table = DOMAIN table \cup {id}
          /\ \A f \in OptionalCreateKeys : r.table[id][f] = StoredFor(body, f, now)
          /\ r.table[id].title = body.title

\* a create carrying only a title was answered 200: the stored task has the
\* generated id and the defaults
WitnessC17 ==
  /\ last.op = "POST"
  /\ last.status = 200
  /\ last.arg = [EmptyBody EXCEPT !.title = "t1"]
  /\ last.id = "task_" \o ToString(now - 1)
  /\ table[last.id].priority = "normal"
  /\ table[last.id].status = "todo"
  /\ table[last.id].pushed_by = "ChiliHead System"
  /\ table[last.id].description = Null

\* the update supplies a status or a priority outside its enumeration
InvalidEnum(updates) ==
  \/ Truthy(updates.status) /\ updates.status \notin Statuses
  \/ Truthy(updates.priority) /\ updates.priority \notin Priorities

\* C18 as stated: every update is all-or-nothing: if an update request
\* supplies several fields and one of them is invalid (status or priority
\* outside its enumeration), the request fails with a validation error
\* (HTTP 400) and none of the supplied fields, nor updated_at, is changed in
\* the stored record.
ClaimC18 ==
  [][(/\ last'.op = "PUT"
      /\ last'.id \in DOMAIN table
      /\ Cardinality(fields(last'.arg)) >= 2
      /\ InvalidEnum(last'.arg)) =>
       /\ last'.status = 400
       /\ table' = table]_vars

\* what does hold of such a request: the single UPDATE is rejected by the
\* CHECK constraint as a whole, the request is answered 500 with the
\* message of every failed update, and the table is left as it is
InvalidUpdateChangesNothing ==
  /\ \A id \in DOMAIN table, updates \in PutBodies \cup AnyKeysBodies :
       LET r == PUTresponse(env, table, Null, id, updates, now)
       IN  /\ InvalidEnum(updates) =>
                /\ r.status = 500
                /\ r.json = ErrorJson("Failed to update task")
                /\ r.caught = "Failed to update task in database"
           /\ r.status # 200 => r.table = table
  /\ \A id \in DOMAIN table :
       LET r == PUTresponse(env, table, Null, id,
                            [StampedBody EXCEPT !.priority = "extreme"], now)
       IN  r.status = 500 /\ r.table = table

\* the response refuses the request with the given status and message
\* without a store operation having been invoked
RefusedEarly(r, status, msg) ==
  /\ r.status = status
  /\ r.json = ErrorJson(msg)
  /\ r.stmts = 0
  /\ r.caught = ""
  /\ r.table = table

\* in every state: an unauthorized POST or DELETE (with or without an id) is
\* answered 401, an authorized POST without a title 400, an authorized
\* DELETE without an id 400 and a PUT without an id 400, each without a
\* store operation
DecidedBeforeStore ==
  /\ \A apiKey \in ApiKeys :
       IF Accepted(env, apiKey)
         THEN /\ \A body \in {EmptyBody, [FullBody EXCEPT !.title = ""]} :
                   RefusedEarly(POSTresponse(env, table, apiKey, body, now),
                                400, "Title is required")
              /\ RefusedEarly(DELETEresponse(env, table, apiKey, Null),
                              400, "Task ID required")
         ELSE /\ \A body \in {EmptyBody, [FullBody EXCEPT !.id = "a"]} :
                   RefusedEarly(POSTresponse(env, table, apiKey, body, now),
                                401, "Unauthorized - Invalid API key")
              /\ \A taskId \in QueryIds(table) :
                   RefusedEarly(DELETEresponse(env, table, apiKey, taskId),
                                401, "Unauthorized - Invalid API key")
  /\ \A apiKey \in ApiKeys, updates \in SentPutBodies :
       RefusedEarly(PUTresponse(env, table, apiKey, Null, updates, now),
                    400, "Task ID required")

\* in every step: a request answered 401 or 400 invoked no store operation
\* and changed nothing; every other response came after exactly one
EarlyReturnsTouchNothing ==
  /\ last'.status \in {400, 401} =>
       /\ last'.stmts = 0
       /\ last'.thrown = ""
       /\ table' = table
       /\ now' = now
  /\ last'.status \notin {400, 401} => last'.stmts = 1

\* C19: in every handler, authorization and validation failures are decided
\* before any store access: an unauthorized POST or DELETE, a POST without
\* title, and a PUT or DELETE without an id query parameter each return
\* their 401/400 response without any store operation having been invoked;
\* in DELETE the secret check precedes the id check, so an unauthorized
\* DELETE without id is answered 401, not 400.
TheoremC19 == []DecidedBeforeStore /\ [][EarlyReturnsTouchNothing]_vars

\* a delete without header and without id was answered 401 while a task is
\* stored, no store operation invoked
WitnessC19 ==
  /\ last.op = "DELETE"
  /\ last.key = Null
  /\ last.id = Null
  /\ last.status = 401
  /\ last.stmts = 0
  /\ table # <<>>
  /\ Accepted(env, "mgr-secret")

\* the fixed message a handler answers with when its store operation throws
GenericMessage(op) ==
  CASE op = "GET" -> "Failed to fetch tasks"
    [] op = "POST" -> "Failed to create task"
    [] op = "PUT" -> "Failed to update task"
    [] op = "DELETE" -> "Failed to delete task"

\* the response is the generic 500 of the handler op, given after one store
\* operation, with the table left as it is
GenericFailure(r, op) ==
  /\ r.status = 500
  /\ r.json = ErrorJson(GenericMessage(op))
  /\ r.caught # ""
  /\ r.json.error # r.caught
  /\ r.stmts = 1
  /\ r.table = table

\* in every state, whatever keeps the database from being used: every
\* request that gets as far as the store is answered with the generic 500 of
\* its handler
FailuresMapped ==
  \A d \in DbConditions \ {"up"} :
    /\ \A status \in SentStatusFilters :
         \A r \in GETon(d, env, table, Null, status) : GenericFailure(r, "GET")
    /\ \A body \in SentPostBodies :
         LET r == POSTon(d, env, table, "mgr-secret", body, now)
         IN  r.stmts = 0 \/ GenericFailure(r, "POST")
    /\ \A taskId \in QueryIds(table), updates \in SentPutBodies :
         LET r == PUTon(d, env, table, Null, taskId, updates, now)
         IN  r.stmts = 0 \/ GenericFailure(r, "PUT")
    /\ \A taskId \in QueryIds(table) :
         LET r == DELETEon(d, env, table, "mgr-secret", taskId)
         IN  r.stmts = 0 \/ GenericFailure(r, "DELETE")

\* in every step: a handler whose store operation threw answered 500 with
\* its fixed message, which is not the message of the Error, after that one
\* store operation and with the table left as it is; a 500 is given for no
\* other reason; and a request served (the step changes neither db nor
\* discards the pool) while the database cannot be used has its store
\* operation throw
ThrownMeansGeneric500 ==
  last'.op \in {"GET", "POST", "PUT", "DELETE"} =>
    /\ last'.thrown # "" =>
         /\ last'.status = 500
         /\ last'.error = GenericMessage(last'.op)
         /\ last'.error # last'.thrown
         /\ last'.stmts = 1
         /\ table' = table
    /\ last'.status = 500 => last'.thrown # ""
    /\ (db # "up" /\ db' = db /\ ~(pool # NoPool /\ pool' = NoPool) /\ last'.stmts = 1) =>
         last'.thrown # ""
    /\ last'.stmts \in {0, 1}

\* C20: for each of GET, POST, PUT and DELETE, when the store operation
\* raises any error the handler returns HTTP 500 with {success:false,
\* error:<fixed generic message>} that does not contain the underlying
\* cause, never lets the exception escape, and does not retry the store
\* operation.
TheoremC20 == []FailuresMapped /\ [][ThrownMeansGeneric500]_vars

\* with the database down and a task stored, a listing was answered 500
\* 'Failed to fetch tasks', the Error of getTasks quoting the cause
WitnessC20 ==
  /\ last.op = "GET"
  /\ last.status = 500
  /\ last.error = "Failed to fetch tasks"
  /\ last.thrown = "Failed to fetch tasks from database: " \o QueryError
  /\ last.stmts = 1
  /\ db = "down"
  /\ table # <<>>

(***************************************************************************)
(* The pool across failures.                                               *)
(***************************************************************************)
\* a step in which a request reached the store while the database was
\* unreachable and the store operation failed
FailedOnConnection ==
  /\ db = "down"
  /\ db' = "down"
  /\ last'.stmts # 0
  /\ last'.thrown # ""

\* C21: whenever a store operation fails because the backing connection is
\* unavailable, the module-level pool is discarded, so that the next store
\* call constructs a fresh pool instead of reusing the one that failed.
ClaimC21 == [][FailedOnConnection => pool' = NoPool]_vars

\* what the code does instead: the catch blocks do not assign the pool, so
\* a request never discards it; the pool held is the one constructed last,
\* and a pool is constructed only while none is held
PoolLifeCycle ==
  /\ [](pool # NoPool => pool = pools)
  /\ [][pool' # pool =>
          \/ pool = NoPool /\ pool' = pools + 1 /\ pools' = pools + 1
          \/ pool' = NoPool /\ pools' = pools /\ table' = table /\ now' = now]_vars

(***************************************************************************)
(* The status cycle on the board.                                          *)
(***************************************************************************)
\* the status k steps along the cycle from s
RECURSIVE Advanced(_, _)
Advanced(s, k) == IF k = 0 THEN s ELSE Advanced(newStatus(s), k - 1)

\* every update a click sent has been served
UpdatesServed == \A m \in net : ~(m.op = "PUT" /\ m.pc = "sent")

\* every click added exactly one update to the requests under way, for the
\* task of the card and with the successor of the status the card showed
ClickSendsSuccessor ==
  Len(clicks') > Len(clicks) =>
    LET e == clicks'[Len(clicks')]
    IN  /\ Len(clicks') = Len(clicks) + 1
        /\ net' \ net = {PutRequest(e.by, Len(clicks'), e.id, newStatus(e.seen))}
        /\ net \subseteq net'
        /\ e.seen \in Statuses => newStatus(e.seen) \in Statuses \ {e.seen}

\* C22: each click on a task's status control sends exactly one update
\* whose status is the successor of the status the board displays, and with
\* a single board, which refreshes after each successful click, the task's
\* status moves one step along the cycle per click: once the updates of k
\* clicks are served the status is k steps from the original one, so that
\* three clicks return it to its original status.
ClaimC22 ==
  (clicks # <<>> /\ UpdatesServed) =>
    /\ clicks[1].id \in DOMAIN table
    /\ table[clicks[1].id].status = Advanced(clicks[1].seen, Len(clicks))

\* what holds instead: the clicks made on a card that showed the stored
\* status, with no earlier update still on its way, advance the status one
\* step each, and three of them return it to the original status
FreshClicksAdvance ==
  /\ [][ClickSendsSuccessor]_vars
  /\ []((clicks # <<>> /\ UpdatesServed /\ \A k \in 1..Len(clicks) : clicks[k].fresh) =>
          /\ clicks[1].id \in DOMAIN table
          /\ table[clicks[1].id].status = Advanced(clicks[1].seen, Len(clicks))
          /\ Len(clicks) = 3 => table[clicks[1].id].status = clicks[1].seen)

\* three clicks, each on a refreshed card, have brought the task back to
\* the status it was pushed with
ThreeFreshClicks ==
  /\ Len(clicks) = 3
  /\ UpdatesServed
  /\ \A k \in 1..3 : clicks[k].fresh
  /\ table["a"].status = "todo"

(***************************************************************************)
(* Concurrent requests.                                                    *)
(***************************************************************************)
\* both slots hold the response of a request of kind op
BothDone(op) == \A s \in Slots : reqs[s].pc = "done" /\ reqs[s].op = op

\* C23: no lost update: for every interleaving of two concurrent update
\* requests on the same existing task that supply disjoint sets of fields,
\* both are answered 200 and the stored record carries the values of both
\* requests.
TheoremC23 ==
  (/\ BothDone("PUT")
   /\ reqs[1].id = reqs[2].id
   /\ reqs[1].id \in DOMAIN table
   /\ fields(reqs[1].body) \cap fields(reqs[2].body) = {}) =>
    /\ \A s \in Slots : reqs[s].status = 200
    /\ \A s \in Slots : \A f \in fields(reqs[s].body) :
         table[reqs[s].id][f] = UpdateValue(f, reqs[s].body[f])

\* two overlapping updates of task a, one of its status and one of its
\* title and assignee, have both been served: the row carries all three
\* values
WitnessC23 ==
  /\ BothDone("PUT")
  /\ fields(reqs[1].body) = {"status"}
  /\ fields(reqs[2].body) = {"title", "assigned_to"}
  /\ reqs[1].status = 200
  /\ reqs[2].status = 200
  /\ table["a"].status = "completed"
  /\ table["a"].title = "t2"
  /\ table["a"].assigned_to = "bob"

\* the row stored under id carries what a create with this body stores
HoldsBody(row, body) ==
  /\ row.title = body.title
  /\ \A f \in OptionalCreateKeys \cup {"pushed_by"} : row[f] = StoredFor(body, f, 0)

\* C24: no duplication under concurrency: for every interleaving of two
\* concurrent authorized create requests that carry the same id (an id not
\* stored when they arrive), exactly one request succeeds and the other is
\* answered 500, one row with that id exists afterwards, and that row holds
\* the field values of the request that succeeded, never a mixture.
TheoremC24 ==
  (/\ BothDone("POST")
   /\ \A s \in Slots : ~reqs[s].generated /\ ~reqs[s].taken
   /\ reqs[1].body.id = reqs[2].body.id) =>
    \E w \in Slots :
      /\ reqs[w].status = 200
      /\ \A s \in Slots \ {w} : reqs[s].status = 500
      /\ reqs[w].body.id \in DOMAIN table
      /\ table[reqs[w].body.id].id = reqs[w].body.id
      /\ HoldsBody(table[reqs[w].body.id], reqs[w].body)

\* two overlapping creations of b with different field values have been
\* served: the second to arrive won, the first was refused, and the row is
\* the winner's
WitnessC24 ==
  /\ BothDone("POST")
  /\ reqs[1].body = [EmptyBody EXCEPT !.title = "t1", !.id = "b"]
  /\ reqs[2].body = [FullBody EXCEPT !.id = "b"]
  /\ reqs[1].status = 500
  /\ reqs[2].status = 200
  /\ table["b"].priority = "urgent"
  /\ table["b"].status = "completed"
  /\ table["b"].description = "d1"

\* C25: a server-generated id is unique: every authorized, valid create
\* request that omits id is given an id different from every id already in
\* the store and from the id generated for any other concurrent create
\* request, so a create without id never fails because of an id collision.
ClaimC25 ==
  \A s \in Slots :
    (reqs[s].pc # "idle" /\ reqs[s].op = "POST" /\ reqs[s].generated) =>
      /\ ~reqs[s].taken
      /\ \A o \in Slots \ {s} :
           (reqs[o].pc # "idle" /\ reqs[o].op = "POST") =>
             reqs[o].body.id # reqs[s].body.id
      /\ reqs[s].pc = "done" => reqs[s].status = 200

\* what holds instead: the generated id is task_<Date.now()>, the same for
\* all requests that read the same instant, and of two such requests the
\* database accepts one
GeneratedFromClock ==
  \A s \in Slots :
    (reqs[s].pc # "idle" /\ reqs[s].op = "POST" /\ reqs[s].generated) =>
      /\ \E t \in 0..now : reqs[s].body.id = "task_" \o ToString(t)
      /\ \A o \in Slots \ {s} :
           (BothDone("POST") /\ reqs[o].body.id = reqs[s].body.id /\ ~reqs[s].taken) =>
             {reqs[s].status, reqs[o].status} = {200, 500}

(***************************************************************************)
(* Convergence of the board.                                               *)
(***************************************************************************)
\* C26: the board converges to the store: once the store is no longer
\* modified, with the timer firing and the fetches succeeding, the list the
\* board displays eventually equals the list the read endpoint returns and
\* stays equal, although responses of overlapping fetches (timer, refresh
\* after a click) arrive in any order.
TheoremC26 == <>[](shown["c1"].tasks = Listed)

\* responses arrived out of order: the update of a click has been served
\* and nothing is under way, yet the board shows the list of an older
\* response, which arrived last
WitnessC26 ==
  /\ clicks # <<>>
  /\ net = {}
  /\ table["a"].status = "in_progress"
  /\ Len(shown["c1"].tasks) = 1
  /\ shown["c1"].tasks[1].status = "todo"
  /\ ~shown["c1"].loading


(***************************************************************************)
(* Creation and deletion without a configured manager secret.              *)
(***************************************************************************)
\* the stores a create or delete request may find: the current one and one
\* holding a task written while a manager secret was configured
StoresFound == {table, addTask(<<>>, StoredTask, 0).table}

\* C27: when the manager secret (API_SECRET_KEY) is not configured, every
\* create and every delete request is answered 401 and leaves the store
\* unchanged, whatever x-api-key it carries, including a request carrying
\* the default or the configured team secret.
TheoremC27 ==
  ~Truthy(ManagerSecret(env)) =>
    /\ \A tbl \in StoresFound, apiKey \in ApiKeys \cup {TeamSecret(env)} :
         /\ \A body \in SentPostBodies \cup {FullBody, EmptyBody} :
              LET r == POSTresponse(env, tbl, apiKey, body, now)
              IN  r.status = 401 /\ r.table = tbl /\ r.stmts = 0
         /\ \A taskId \in QueryIds(tbl) :
              LET r == DELETEresponse(env, tbl, apiKey, taskId)
              IN  r.status = 401 /\ r.table = tbl /\ r.stmts = 0
    /\ last.op \in {"POST", "DELETE"} => last.status = 401 /\ last.stmts = 0
    /\ table = <<>>

\* no manager secret is configured and a create request carrying the team
\* secret was answered 401
WitnessC27 ==
  /\ ~Truthy(ManagerSecret(env))
  /\ last.op = "POST"
  /\ last.key = TeamSecret(env)
  /\ last.status = 401
  /\ table = <<>>


(***************************************************************************)
(* Concurrent deletions.                                                   *)
(***************************************************************************)
\* this step is the handler in slot s sending its DELETE statement while
\* slot o holds a delete request for the same task, both received while the
\* task was stored
DeletesOverlap(s, o) ==
  /\ reqs[s].pc = "received" /\ reqs[s].op = "DELETE" /\ reqs[s].taken
  /\ reqs[o].pc # "idle" /\ reqs[o].op = "DELETE" /\ reqs[o].taken
  /\ reqs[o].id = reqs[s].id
  /\ reqs'[s].pc = "done"

\* C28: for every interleaving of two concurrent authorized delete requests
\* for the same existing id, exactly one of them reports that a record was
\* removed (200) and the other reports not found (404); afterwards the
\* record is absent and every other record is unchanged.
TheoremC28 ==
  [][\A s \in Slots : \A o \in Slots \ {s} :
       DeletesOverlap(s, o) =>
         /\ reqs[o].pc = "received" =>
              /\ reqs[s].id \in DOMAIN table
              /\ reqs'[s].status = 200
         /\ reqs[o].pc = "done" =>
              /\ reqs[s].id \notin DOMAIN table
              /\ {reqs[o].status, reqs'[s].status} = {200, 404}
              /\ reqs[o].status = 200
         /\ reqs[s].id \notin DOMAIN table'
         /\ DOMAIN table' = DOMAIN table \ {reqs[s].id}
         /\ \A other \in DOMAIN table' : table'[other] = table[other]]_vars

\* both delete requests for task a, received while it was stored, have been
\* answered, the one in slot 2 with 200 and the one in slot 1 with 404, and
\* the task is gone
WitnessC28 ==
  /\ BothDone("DELETE")
  /\ reqs[1].taken /\ reqs[2].taken
  /\ reqs[1].status = 404
  /\ reqs[2].status = 200
  /\ "a" \notin DOMAIN table


(***************************************************************************)
(* Two boards clicking the same card.                                      *)
(***************************************************************************)
\* the two boards have clicked the card of the same task while both showed
\* the status s, and both updates have been served
BothClicked(s) ==
  /\ Len(clicks) = 2
  /\ clicks[1].by # clicks[2].by
  /\ clicks[1].id = clicks[2].id
  /\ clicks[1].seen = s /\ clicks[2].seen = s
  /\ \A m \in net : ~(m.op = "PUT" /\ m.pc = "sent")

\* C29: the server does not enforce the status cycle and the client computes
\* the next status from its own displayed copy: an update request may move a
\* task from any enumerated status to any enumerated status, and when two
\* clients that both display status s for the same task each click once,
\* both send succ(s) and the stored status ends at succ(s) (advanced one
\* step in total, not two), under every interleaving.
TheoremC29 ==
  /\ \A taskId \in DOMAIN table, to \in Statuses :
       LET r == PUTresponse(env, table, Null, taskId, ClickBody(to), now)
       IN  /\ r.status = 200
           /\ r.table[taskId].status = to
  /\ \A m \in net :
       m.op = "PUT" => m.status = newStatus(clicks[m.n].seen)
  /\ \A s \in Statuses :
       BothClicked(s) =>
         /\ clicks[1].id \in DOMAIN table
         /\ table[clicks[1].id].status = newStatus(s)
         /\ table[clicks[1].id].status # newStatus(newStatus(s))

\* both boards showed task a in progress and clicked it, both updates have
\* been served, and the task is stored as completed
WitnessC29 ==
  /\ BothClicked("in_progress")
  /\ net = {}
  /\ table["a"].status = "completed"
  /\ \A c \in Clients : shown[c].tasks # <<>> /\ shown[c].tasks[1].status = "completed"


(***************************************************************************)
(* Statistics during an outage.                                            *)
(***************************************************************************)
\* the statistics of an empty collection
ZeroStats == [total |-> 0, todo |-> 0, in_progress |-> 0, completed |-> 0, overdue |-> 0]

\* this step is a call of getTaskStats whose query fails
StatsQueryFails == GetTaskStats /\ db = "down"

\* C30 as stated: getTaskStats never reports a query failure to its caller:
\* when the statistics query fails it returns total = todo = in_progress =
\* completed = overdue = 0, the same result as for an empty collection,
\* whatever the store actually contains, and it leaves the store and the
\* pool unchanged.
ClaimC30 ==
  [][StatsQueryFails =>
       /\ last'.thrown = ""
       /\ last'.ret = ZeroStats
       /\ table' = table
       /\ pool' = pool]_vars

\* C30, corrected: when the statistics query fails getTaskStats throws
\* nothing and returns the statistics of an empty collection whatever the
\* store contains; it leaves the store unchanged and does not discard the
\* pool: the pool after the call is the pool the query was sent on, which is
\* the pool held before the call or, when none was held, a pool the call
\* itself constructed.
TheoremC30 ==
  [][StatsQueryFails =>
       /\ last'.thrown = ""
       /\ last'.ret = ZeroStats
       /\ last'.ret = getTaskStats(<<>>, now)
       /\ \A tbl \in {table, addTask(<<>>, StoredTask, 0).table} :
            getTaskStatsOn(db, tbl, now) = Return(ZeroStats, tbl)
       /\ table' = table
       /\ pool' # NoPool
       /\ pool # NoPool => pool' = pool
       /\ pool = NoPool => pool' = pools + 1 /\ pools' = pools + 1]_vars

\* getTaskStats has returned zeros while the database was down and the
\* store held a task; the pool is still held
WitnessC30 ==
  /\ db = "down"
  /\ last.op = "getTaskStats"
  /\ last.thrown = ""
  /\ last.ret = ZeroStats
  /\ DOMAIN table # {}
  /\ getTaskStats(table, now).total = 1
  /\ pool # NoPool

====
